---- MODULE Spec2Model ----
(***************************************************************************)
(* Booking bot of Ronald-Zeballos/Bot3: the conversational state machine   *)
(* of WhatsappService (src/unnamed/part_001) and the slot store of         *)
(* SheetsService (src/src/google-speech/google-speech.service.ts).         *)
(*                                                                         *)
(* Encodings.  A text is a tuple of one-character strings.  A date string  *)
(* "YYYY-MM-DD" is the number YYYYMMDD (0 = undefined).  An instant (a JS  *)
(* Date) is a number of hours since 1970-01-01T00:00Z.                     *)
(***************************************************************************)
EXTENDS Integers, Sequences, FiniteSets, TLC

VARIABLES
    now,          \* the wall clock, hours since the epoch (new Date())
    days,         \* SpecDays: the list returned by getNextWorkingDays
    dpc,          \* SpecDays: "call" before the call, "done" after it
    query,        \* a call of getSlotsForDate (SpecSlots) or of findServiceFromText
                  \* (SpecService), its argument and result
    userStates,   \* WhatsappService.userStates: recipient -> UserState
    forms,        \* WhatsappService.forms: recipient -> form session
    sheet,        \* tab Horarios: row number -> row cells
    appts,        \* tab Citas: sequence of appended booking rows
    pc,           \* per recipient: position inside handleSlotRowSelected
    loc,          \* per recipient: locals of the running handleSlotRowSelected
    out,          \* per recipient: messages sent while handling the last event
    hist          \* per recipient: history of the conversation (ghost)

vars == <<now, days, dpc, query, userStates, forms, sheet, appts, pc, loc, out, hist>>

-----------------------------------------------------------------------------
(* Dates: Date.UTC, Intl.DateTimeFormat in LOCAL_TZ, and the holiday rules *)

HoursPerDay == 24
TzOffsetHours == 4

\* Date.UTC(y, m - 1, d) expressed in days since the epoch (proleptic Gregorian)
DaysFromCivil(y, m, d) ==
    LET yy  == IF m <= 2 THEN y - 1 ELSE y
        era == yy \div 400
        yoe == yy - era * 400
        mp  == IF m > 2 THEN m - 3 ELSE m + 9
        doy == (153 * mp + 2) \div 5 + d - 1
        doe == yoe * 365 + yoe \div 4 - yoe \div 100 + doy
    IN  era * 146097 + doe - 719468

\* the calendar date of a day number, as the number YYYYMMDD
CivilFromDays(z) ==
    LET zz  == z + 719468
        era == zz \div 146097
        doe == zz - era * 146097
        yoe == (doe - doe \div 1460 + doe \div 36524 - doe \div 146096) \div 365
        doy == doe - (365 * yoe + yoe \div 4 - yoe \div 100)
        mp  == (5 * doy + 2) \div 153
        d   == doy - (153 * mp + 2) \div 5 + 1
        m   == IF mp < 10 THEN mp + 3 ELSE mp - 9
        y   == yoe + era * 400 + (IF m <= 2 THEN 1 ELSE 0)
    IN  y * 10000 + m * 100 + d

YearOf(ymd)  == ymd \div 10000
MonthOf(ymd) == (ymd \div 100) % 100
DayOf(ymd)   == ymd % 100

\* new Date(Date.UTC(y, m - 1, d)): the instant of midnight UTC of that date
DateUTC(y, m, d) == DaysFromCivil(y, m, d) * HoursPerDay

\* the day number of the local (America/La_Paz, UTC-4, no DST) date of an instant
LocalDayNumber(t) == (t - TzOffsetHours) \div HoursPerDay

\* ymdLocal(d): the date of an instant formatted in LOCAL_TZ
ymdLocal(t) == CivilFromDays(LocalDayNumber(t))

\* todayYMD(): year, month and day of the current instant in LOCAL_TZ
PartsOf(ymd) == [y |-> YearOf(ymd), m |-> MonthOf(ymd), day |-> DayOf(ymd)]
todayYMD(t) == PartsOf(ymdLocal(t))

\* weekday of an instant in LOCAL_TZ, 0 = Sunday (1970-01-01 was a Thursday)
LocalWeekday(t) == (LocalDayNumber(t) + 4) % 7

\* easterYMD(y): Meeus' algorithm
easterYMD(y) ==
    LET a == y % 19
        b == y \div 100
        c == y % 100
        d == b \div 4
        e == b % 4
        f == (b + 8) \div 25
        g == (b - f + 1) \div 3
        h == (19 * a + b - d - g + 15) % 30
        i == c \div 4
        k == c % 4
        l == (32 + 2 * e + 2 * i - h - k) % 7
        m == (a + 11 * h + 22 * l) \div 451
        month == (h + l - 7 * m + 114) \div 31
        day   == ((h + l - 7 * m + 114) % 31) + 1
    IN  y * 10000 + month * 100 + day

\* shiftDays(ymd, n): midnight UTC of ymd, moved n days, formatted in LOCAL_TZ
shiftDays(ymd, n) ==
    ymdLocal(DateUTC(YearOf(ymd), MonthOf(ymd), DayOf(ymd)) + n * HoursPerDay)

\* the fixed holidays of year y and the ones counted from easter
HolidaysAround(y, easter) ==
    { y * 10000 + 101, y * 10000 + 501, y * 10000 + 621, y * 10000 + 806,
      y * 10000 + 1102, y * 10000 + 1225, y * 10000 + 924,
      shiftDays(easter, -48), shiftDays(easter, -47),
      shiftDays(easter, -2), shiftDays(easter, 60) }

\* the set `days` built by isHolidayOrSunday for year y
HolidaySet(y) == HolidaysAround(y, easterYMD(y))

\* days.has(ymd), the set being the one of the year of ymd
IsHoliday(ymd) == ymd \in HolidaySet(YearOf(ymd))

isHolidayOrSunday(t) ==
    IF LocalWeekday(t) = 0 THEN TRUE ELSE IsHoliday(ymdLocal(t))

RECURSIVE WorkingDaysLoop(_, _, _)
WorkingDaysLoop(acc, cursor, n) ==
    IF Len(acc) >= n THEN acc
    ELSE WorkingDaysLoop(
            IF ~isHolidayOrSunday(cursor) THEN Append(acc, ymdLocal(cursor)) ELSE acc,
            cursor + HoursPerDay, n)

\* getNextWorkingDays(n) called at instant t
MidnightUTC(td) == DateUTC(td.y, td.m, td.day)
getNextWorkingDays(t, n) == WorkingDaysLoop(<<>>, MidnightUTC(todayYMD(t)), n)

\* the instant at which the conversations take place: 2025-04-14 12:00Z
NowMain == DateUTC(2025, 4, 14) + 12
\* the value of a table at x, or else the value computed for x
TableOr(table, x, computed) == IF x \in DOMAIN table THEN table[x] ELSE computed
\* this.sheets.getNextWorkingDays(7) at instant t (the lists of the hours after NowMain are kept)
ListAtNowMain == [t \in NowMain..(NowMain + 8) |-> getNextWorkingDays(t, 7)]
NextSevenDays(t) == TableOr(ListAtNowMain, t, getNextWorkingDays(t, 7))

-----------------------------------------------------------------------------
(* Texts: String methods and regular expressions on tuples of characters   *)

Digits == {"0", "1", "2", "3", "4", "5", "6", "7", "8", "9"}
UpperSeq == <<"A", "B", "C", "D", "E", "F", "G", "H", "I", "J", "K", "L", "M", "N", "O", "P", "Q", "R", "S", "T", "U", "V", "W", "X", "Y", "Z", "Á", "É", "Í", "Ó", "Ú", "Ü", "Ñ">>
LowerSeq == <<"a", "b", "c", "d", "e", "f", "g", "h", "i", "j", "k", "l", "m", "n", "o", "p", "q", "r", "s", "t", "u", "v", "w", "x", "y", "z", "á", "é", "í", "ó", "ú", "ü", "ñ">>
\* the letters of /[A-Za-zÁÉÍÓÚÜÑáéíóúüñ]/
NameLetters == {UpperSeq[i] : i \in 1..Len(UpperSeq)} \cup {LowerSeq[i] : i \in 1..Len(LowerSeq)}
\* the letters of /[a-z]/i
AsciiLetters == {UpperSeq[i] : i \in 1..26} \cup {LowerSeq[i] : i \in 1..26}
\* a word character of a JS regular expression, /\w/
IsWordChar(c) == c \in AsciiLetters \cup Digits \cup {"_"}

\* String.prototype.toLowerCase, one character
LowerChar(c) ==
    IF \E i \in 1..Len(UpperSeq) : UpperSeq[i] = c
    THEN LowerSeq[CHOOSE i \in 1..Len(UpperSeq) : UpperSeq[i] = c]
    ELSE c
toLowerCase(s) == [i \in 1..Len(s) |-> LowerChar(s[i])]

RECURSIVE TrimLeft(_)
TrimLeft(s) == IF s # <<>> /\ Head(s) = " " THEN TrimLeft(Tail(s)) ELSE s
RECURSIVE TrimRight(_)
TrimRight(s) == IF s # <<>> /\ s[Len(s)] = " " THEN TrimRight(SubSeq(s, 1, Len(s) - 1)) ELSE s
\* String.prototype.trim
trim(s) == TrimRight(TrimLeft(s))

\* String.prototype.includes
includes(s, sub) ==
    \E i \in 1..(Len(s) - Len(sub) + 1) : \A j \in 1..Len(sub) : s[i + j - 1] = sub[j]
\* String.prototype.startsWith
startsWith(s, pre) == Len(s) >= Len(pre) /\ SubSeq(s, 1, Len(pre)) = pre
\* String.prototype.slice(n)
slice(s, n) == SubSeq(s, n + 1, Len(s))

\* onlyDigits(s): s.replace(/[^\d]/g, '')
onlyDigits(s) == SelectSeq(s, LAMBDA c : c \in Digits)

\* s.split(/\s+/).filter(Boolean): the maximal runs of non-space characters
RECURSIVE SplitWords(_, _, _)
SplitWords(s, cur, acc) ==
    IF s = <<>> THEN (IF cur = <<>> THEN acc ELSE Append(acc, cur))
    ELSE IF Head(s) = " "
         THEN SplitWords(Tail(s), <<>>, IF cur = <<>> THEN acc ELSE Append(acc, cur))
         ELSE SplitWords(Tail(s), Append(cur, Head(s)), acc)

\* the texts a recipient types
T_hola == <<"h", "o", "l", "a">>
T_cancelar == <<"Q", "u", "i", "e", "r", "o", " ", "C", "A", "N", "C", "E", "L", "A", "R">>
T_ayuda == <<"a", "y", "u", "d", "a">>
T_nombre == <<"M", "a", "r", "í", "a", " ", "G", "o", "n", "z", "á", "l", "e", "z">>
T_telefono == <<"+", "5", "9", "1", " ", "6", "5", "9", "0", "0", "6", "4", "5">>
T_tel591 == <<"+", "5", "9", "1", " ", "5", "9", "1", "1", "2", "3", "4", "5">>
T_tel14 == <<"5", "9", "1", "5", "9", "1", "6", "5", "9", "0", "0", "6", "4", "5">>
T_si == <<"s", "í">>
T_email == <<"m", "a", "r", "i", "a", "@", "e", "x", "a", "m", "p", "l", "e", ".", "c", "o", "m">>
T_confirmar == <<"c", "o", "n", "f", "i", "r", "m", "a", "r">>
T_no == <<"n", "o">>
T_impuestos == <<"i", "m", "p", "u", "e", "s", "t", "o", "s">>
K_cancelar == <<"c", "a", "n", "c", "e", "l", "a", "r">>
K_ayuda == <<"a", "y", "u", "d", "a">>
K_591 == <<"5", "9", "1">>

K_gracias == <<"g", "r", "a", "c", "i", "a", "s">>
K_disponible == <<"D", "I", "S", "P", "O", "N", "I", "B", "L", "E">>
K_reservado == <<"R", "E", "S", "E", "R", "V", "A", "D", "O">>
K_servicio == <<"S", "e", "r", "v", "i", "c", "i", "o">>
B_serv_tributaria == <<"A", "s", "e", "s", "o", "r", "í", "a", "_", "T", "r", "i", "b", "u", "t", "a", "r", "i", "a">>

\* toUpperCase, one character, and String.prototype.toUpperCase
UpperChar(c) ==
    IF \E i \in 1..Len(LowerSeq) : LowerSeq[i] = c
    THEN UpperSeq[CHOOSE i \in 1..Len(LowerSeq) : LowerSeq[i] = c]
    ELSE c
toUpperCase(s) == [i \in 1..Len(s) |-> UpperChar(s[i])]

\* t.normalize('NFD') with the combining marks removed: the base letter of an accented one
AccentedSeq == <<"Á", "É", "Í", "Ó", "Ú", "Ü", "Ñ", "á", "é", "í", "ó", "ú", "ü", "ñ">>
BaseSeq == <<"A", "E", "I", "O", "U", "U", "N", "a", "e", "i", "o", "u", "u", "n">>
Unaccent(c) ==
    IF \E i \in 1..Len(AccentedSeq) : AccentedSeq[i] = c
    THEN BaseSeq[CHOOSE i \in 1..Len(AccentedSeq) : AccentedSeq[i] = c]
    ELSE c
\* WhatsappService.normalize(t)
normalize(t) == trim(toLowerCase([i \in 1..Len(t) |-> Unaccent(t[i])]))

\* s.replace(/_/g, ' ')
UnderscoresToSpaces(s) == [i \in 1..Len(s) |-> IF s[i] = "_" THEN " " ELSE s[i]]

SERVICE_CATALOG == <<
    [id |-> "tributario", label |-> <<"A", "s", "e", "s", "o", "r", "í", "a", " ", "T", "r", "i", "b", "u", "t", "a", "r", "i", "a">>,
     aliases |-> << <<"i", "m", "p", "u", "e", "s", "t", "o", "s">>,
                   <<"f", "i", "s", "c", "a", "l">>,
                   <<"s", "a", "t">>,
                   <<"t", "r", "i", "b", "u", "t", "a", "r", "i", "a">> >>],
    [id |-> "legal", label |-> <<"A", "s", "e", "s", "o", "r", "í", "a", " ", "L", "e", "g", "a", "l">>,
     aliases |-> << <<"c", "o", "n", "t", "r", "a", "t", "o">>,
                   <<"a", "b", "o", "g", "a", "d", "o">>,
                   <<"l", "e", "y">>,
                   <<"j", "u", "r", "i", "d", "i", "c", "o">>,
                   <<"j", "u", "r", "í", "d", "i", "c", "o">> >>],
    [id |-> "laboral", label |-> <<"A", "s", "e", "s", "o", "r", "í", "a", " ", "L", "a", "b", "o", "r", "a", "l">>,
     aliases |-> << <<"e", "m", "p", "l", "e", "o">>,
                   <<"t", "r", "a", "b", "a", "j", "o">>,
                   <<"c", "o", "n", "t", "r", "a", "t", "a", "c", "i", "ó", "n">>,
                   <<"d", "e", "s", "p", "i", "d", "o">> >>],
    [id |-> "conta", label |-> <<"C", "o", "n", "t", "a", "b", "i", "l", "i", "d", "a", "d">>,
     aliases |-> << <<"c", "o", "n", "t", "a", "b", "l", "e">>,
                   <<"l", "i", "b", "r", "o", "s">>,
                   <<"d", "e", "c", "l", "a", "r", "a", "c", "i", "o", "n", "e", "s">>,
                   <<"f", "a", "c", "t", "u", "r", "a", "c", "i", "ó", "n">>,
                   <<"f", "a", "c", "t", "u", "r", "a", "c", "i", "o", "n">> >>],
    [id |-> "sistemas", label |-> <<"S", "i", "s", "t", "e", "m", "a", "s", " ", "I", "n", "f", "o", "r", "m", "á", "t", "i", "c", "o", "s">>,
     aliases |-> << <<"s", "o", "f", "t", "w", "a", "r", "e">>,
                   <<"r", "e", "d", "e", "s">>,
                   <<"i", "n", "f", "o", "r", "m", "á", "t", "i", "c", "a">>,
                   <<"i", "n", "f", "o", "r", "m", "a", "t", "i", "c", "a">>,
                   <<"t", "e", "c", "n", "o", "l", "o", "g", "í", "a">>,
                   <<"t", "e", "c", "n", "o", "l", "o", "g", "i", "a">> >>] >>

ServiceMenuWords == { <<"v", "e", "r", " ", "s", "e", "r", "v", "i", "c", "i", "o", "s">>,
                      <<"s", "e", "r", "v", "i", "c", "i", "o", "s">>,
                      <<"a", "g", "e", "n", "d", "a", "r", " ", "c", "i", "t", "a">>,
                      <<"a", "g", "e", "n", "d", "a", "r", "_", "c", "i", "t", "a">> }

\* the alternatives of the greeting expression of handleInitialMessage
GreetingWords == <<
    <<"h", "o", "l", "a">>,
    <<"b", "u", "e", "n", "a", "s">>,
    <<"h", "e", "l", "l", "o">>,
    <<"h", "i">>,
    <<"b", "u", "e", "n", "o", "s", " ", "d", "í", "a", "s">>,
    <<"b", "u", "e", "n", "a", "s", " ", "t", "a", "r", "d", "e", "s">>,
    <<"b", "u", "e", "n", "a", "s", " ", "n", "o", "c", "h", "e", "s">>,
    <<"i", "n", "i", "c", "i", "o">>,
    <<"e", "m", "p", "e", "z", "a", "r">> >>
\* the alternatives of the farewell expression of handleInitialMessage
FarewellWords == <<
    <<"a", "d", "i", "ó", "s">>,
    <<"c", "h", "a", "o">>,
    <<"h", "a", "s", "t", "a", " ", "l", "u", "e", "g", "o">>,
    <<"b", "y", "e">> >>

-----------------------------------------------------------------------------
(* FORM_APPT: the fields of the contact form, their validate and normalize *)

FORM_APPT == <<"nombre", "telefono", "email">>

\* digits with a leading 591 removed (validate and normalize of telefono)
StripCountryCode(v) ==
    LET digits == onlyDigits(v)
    IN  IF startsWith(digits, K_591) THEN slice(digits, 3) ELSE digits

\* FORM_APPT[0].validate: "ok" stands for true, any other value is the message
ValidateNombre(v) ==
    LET val   == trim(v)
        parts == SplitWords(val, <<>>, <<>>)
    IN  IF val = <<>> \/ \E i \in 1..Len(val) : val[i] \notin NameLetters \cup {" "}
        THEN "solo_letras"
        ELSE IF Len(parts) < 2 \/ \E i \in 1..Len(parts) : Len(parts[i]) < 2
             THEN "nombre_y_apellido"
             ELSE "ok"

\* FORM_APPT[1].validate
ValidateTelefono(v) ==
    IF Len(StripCountryCode(v)) = 8 THEN "ok" ELSE "numero_invalido"

\* /^[a-z0-9._%+-]+@[a-z0-9.-]+\.[a-z]{2,}$/i
EmailLocalChars  == AsciiLetters \cup Digits \cup {".", "_", "%", "+", "-"}
EmailDomainChars == AsciiLetters \cup Digits \cup {".", "-"}
MatchesEmail(s) ==
    \E at \in 2..Len(s) : \E dot \in (at + 2)..(Len(s) - 2) :
        /\ s[at] = "@"
        /\ s[dot] = "."
        /\ \A i \in 1..(at - 1) : s[i] \in EmailLocalChars
        /\ \A i \in (at + 1)..(dot - 1) : s[i] \in EmailDomainChars
        /\ \A i \in (dot + 1)..Len(s) : s[i] \in AsciiLetters

\* FORM_APPT[2].validate
ValidateEmail(v) ==
    IF MatchesEmail(toLowerCase(trim(v))) THEN "ok" ELSE "email_invalido"

\* field.validate(v)
Validate(key, v) ==
    CASE key = "nombre"   -> ValidateNombre(v)
      [] key = "telefono" -> ValidateTelefono(v)
      [] key = "email"    -> ValidateEmail(v)

\* field.normalize ? field.normalize(v) : v
NormalizeField(key, v) ==
    CASE key = "nombre"   -> v
      [] key = "telefono" -> StripCountryCode(v)
      [] key = "email"    -> toLowerCase(trim(v))

-----------------------------------------------------------------------------
(* The values of the text functions on the texts of the model, computed    *)
(* once; on any other text the function itself is computed.                *)

KnownTexts == {<<>>, T_hola, T_cancelar, T_ayuda, T_nombre, T_telefono, T_tel591, T_tel14,
               T_si, T_email, T_confirmar, T_no, T_impuestos}
FieldKeys == {"nombre", "telefono", "email"}
NormalizeTable == [key \in FieldKeys |-> [v \in KnownTexts |-> NormalizeField(key, v)]]
\* field.normalize(text)
NormalizeOf(key, v) == IF v \in KnownTexts THEN NormalizeTable[key][v] ELSE NormalizeField(key, v)
KnownValues == KnownTexts \cup {NormalizeTable[key][v] : key \in FieldKeys, v \in KnownTexts}
ValidateTable == [key \in FieldKeys |-> [v \in KnownValues |-> Validate(key, v)]]
\* field.validate(value)
ValidateOf(key, v) == IF v \in KnownValues THEN ValidateTable[key][v] ELSE Validate(key, v)
TrimTable == [v \in KnownValues |-> trim(v)]
\* String(value).trim()
TrimOf(v) == IF v \in KnownValues THEN TrimTable[v] ELSE trim(v)
CleanTable == [v \in KnownTexts |-> toLowerCase(trim(v))]
\* (text || '').trim().toLowerCase()
CleanText(v) == IF v \in KnownTexts THEN CleanTable[v] ELSE toLowerCase(trim(v))
CancelTexts == {v \in KnownTexts : includes(CleanTable[v], K_cancelar)}
\* cleanedText.includes('cancelar')
SaysCancel(v) == IF v \in KnownTexts THEN v \in CancelTexts ELSE includes(CleanText(v), K_cancelar)
HelpTexts == {v \in KnownTexts : includes(CleanTable[v], K_ayuda)}
\* cleanedText.includes('ayuda')
SaysHelp(v) == IF v \in KnownTexts THEN v \in HelpTexts ELSE includes(CleanText(v), K_ayuda)
KnownStatus == {<<>>, K_disponible, K_reservado}
StatusTable == [v \in KnownStatus |-> [upper |-> toUpperCase(v), trimmed |-> toUpperCase(trim(v))]]
\* String(cell).toUpperCase()
UpperStatus(v) == IF v \in KnownStatus THEN StatusTable[v].upper ELSE toUpperCase(v)
\* String(cell).trim().toUpperCase()
TrimmedUpperStatus(v) == IF v \in KnownStatus THEN StatusTable[v].trimmed ELSE toUpperCase(trim(v))

-----------------------------------------------------------------------------
(* findServiceFromText and the expressions of handleInitialMessage         *)

\* this.normalize(s.label) and this.normalize(a) of every catalog entry
NormalizedCatalog ==
    [i \in 1..Len(SERVICE_CATALOG) |->
        [label |-> normalize(SERVICE_CATALOG[i].label),
         aliases |-> [j \in 1..Len(SERVICE_CATALOG[i].aliases) |->
                        normalize(SERVICE_CATALOG[i].aliases[j])]]]

RECURSIVE AliasScore(_, _, _)
AliasScore(n, aliases, i) ==
    IF i > Len(aliases) THEN 0
    ELSE (IF includes(n, aliases[i]) THEN 1 ELSE 0) + AliasScore(n, aliases, i + 1)

\* the label counts like an alias
ServiceScoreFlat(n, s) ==
    (IF includes(n, s.label) THEN 1 ELSE 0) + AliasScore(n, s.aliases, 1)

ServiceScore(n, s) ==
    (IF includes(n, s.label) THEN 3 ELSE 0) + AliasScore(n, s.aliases, 1)

\* the loop of findServiceFromText: best is 0 (null) or the index of the best entry
RECURSIVE FindServiceLoop(_, _, _, _)
FindServiceLoop(n, i, best, bestScore) ==
    IF i > Len(SERVICE_CATALOG) THEN best
    ELSE LET score == ServiceScore(n, NormalizedCatalog[i])
         IN  IF score > 0 /\ (best = 0 \/ score > bestScore)
             THEN FindServiceLoop(n, i + 1, i, score)
             ELSE FindServiceLoop(n, i + 1, best, bestScore)

\* findServiceFromText(text): 0 for null, else the index into SERVICE_CATALOG
findServiceFromText(text) == FindServiceLoop(normalize(text), 1, 0, 0)

\* /(^|\b)(w1|w2|...)(\b|$)/ : an alternative at a word boundary on both sides
MatchesWordOf(t, words) ==
    \E k \in 1..Len(words) : \E i \in 1..(Len(t) - Len(words[k]) + 1) :
        LET e == i + Len(words[k]) - 1
        IN  /\ \A j \in 1..Len(words[k]) : t[i + j - 1] = words[k][j]
            /\ (i = 1 \/ ~IsWordChar(t[i - 1]))
            /\ (e = Len(t) \/ ~IsWordChar(t[e + 1]))

IsGreeting(t) == MatchesWordOf(t, GreetingWords)
IsFarewell(t) == \E k \in 1..Len(FarewellWords) : includes(t, FarewellWords[k])

-----------------------------------------------------------------------------
(* The recipients, the slot sheet and the records of the two services      *)

\* bounds of the model
MaxIdx == 3         \* the value of idx up to which tel_yes is offered
MaxAppts == 2       \* booking rows the ledger may hold before appends stop being offered
FirstYear == 2025   \* SpecDays: the first year whose days are taken as "today"
SpanDays == 400     \* SpecDays: how many consecutive days are taken as "today"
MaxTicks == 2       \* SpecHelp: how many hours pass
MaxDaySlots == 20   \* SpecLongDay: the most open slots that a day holds
MaxHalfDays == 3    \* SpecSweep: how many half days pass

From == {"u1", "u2"}
\* message.from: the WhatsApp id of each recipient
Address(r) ==
    IF r = "u1" THEN <<"5", "9", "1", "6", "5", "9", "0", "0", "6", "4", "5">>
                ELSE <<"5", "9", "1", "7", "0", "4", "0", "0", "1", "7", "5">>
AddressTable == [r \in From |-> [digits |-> onlyDigits(Address(r)),
                                  local |-> StripCountryCode(Address(r))]]

Ymd(y, m, d) == y * 10000 + m * 100 + d
DayA   == Ymd(2025, 4, 15)   \* a listed day with two open slots
DayB   == Ymd(2025, 4, 16)   \* a listed day with one slot of absent status
DayOff == Ymd(2025, 4, 20)   \* a Sunday: never listed

Undef == "undefined"
\* the hours of one seeded day: 09:00-12:30 and 14:00-17:00 every 30 minutes
SeedTimes ==
    <<"09:00", "09:30", "10:00", "10:30", "11:00", "11:30", "12:00", "12:30",
      "14:00", "14:30", "15:00", "15:30", "16:00", "16:30", "17:00">>
\* collation order (localeCompare) of the hour cells used
\* later hours that rows added by hand may hold
LateTimes == <<"17:30", "18:00", "18:30", "19:00", "19:30", "20:00", "20:30">>
TimeOrder == <<"">> \o SeedTimes \o LateTimes
TimeRank(t) == CHOOSE i \in 1..Len(TimeOrder) : TimeOrder[i] = t

Rows == 2..5
BlankRow == [date |-> 0, time |-> "", service |-> <<>>, status |-> <<>>,
             notes |-> <<>>, claimant |-> <<>>, ts |-> 0]
\* tab Horarios as seeded (seedMonthSlots writes DISPONIBLE); row 4 is an older
\* row without a status, row 5 lies beyond the data
SheetInit ==
    [row \in Rows |->
        CASE row = 2 -> [BlankRow EXCEPT !.date = DayA, !.time = "09:00", !.status = K_disponible]
          [] row = 3 -> [BlankRow EXCEPT !.date = DayA, !.time = "09:30", !.status = K_disponible]
          [] row = 4 -> [BlankRow EXCEPT !.date = DayB, !.time = "10:00"]
          [] OTHER   -> BlankRow]

\* type SlotOffered (label is date and time joined, not kept)
SlotOffered(row, date, time) == [row |-> row, date |-> date, time |-> time]

\* stable insertion by hour: out.sort((a, b) => a.time.localeCompare(b.time))
RECURSIVE InsertByTime(_, _)
InsertByTime(sorted, s) ==
    IF sorted = <<>> THEN <<s>>
    ELSE IF TimeRank(sorted[Len(sorted)].time) <= TimeRank(s.time)
         THEN Append(sorted, s)
         ELSE Append(InsertByTime(SubSeq(sorted, 1, Len(sorted) - 1), s), sorted[Len(sorted)])
RECURSIVE SortByTime(_, _)
SortByTime(list, acc) ==
    IF list = <<>> THEN acc ELSE SortByTime(Tail(list), InsertByTime(acc, Head(list)))

\* the loop of getSlotsForDate over the rows of A2:G, in row order
RECURSIVE OpenRowsLoop(_, _, _, _)
OpenRowsLoop(sh, dateYMD, row, acc) ==
    IF row \notin DOMAIN sh THEN acc
    ELSE LET fecha  == sh[row].date
             hora   == sh[row].time
             estado == TrimmedUpperStatus(sh[row].status)
         IN  OpenRowsLoop(sh, dateYMD, row + 1,
                IF fecha = dateYMD /\ (estado = <<>> \/ estado = K_disponible)
                THEN Append(acc, SlotOffered(row, fecha, hora)) ELSE acc)

\* the rows are returned in sheet order
UnsortedSlots(sh, dateYMD) == OpenRowsLoop(sh, dateYMD, 2, <<>>)

\* SheetsService.getSlotsForDate(dateYMD) on sheet contents sh
getSlotsForDate(sh, dateYMD) == SortByTime(OpenRowsLoop(sh, dateYMD, 2, <<>>), <<>>)

\* the status that was read is not looked at
ReserveReadAnyRow(sh, rowNumber) == rowNumber > 0

\* reserveSlotRow, the check made on the row that was read: may the write go on?
ReserveReadOpen(sh, rowNumber) ==
    LET cur == IF rowNumber \in DOMAIN sh THEN sh[rowNumber] ELSE BlankRow
        estadoActual == UpperStatus(cur.status)
    IN  rowNumber > 0 /\ ~(estadoActual # <<>> /\ estadoActual # K_disponible)

\* the update reaches every row of the day of the row
ReserveWriteWholeDay(sh, rowNumber, byPhone, serviceType, t) ==
    [row \in DOMAIN sh |->
        IF sh[row].date = sh[rowNumber].date
        THEN [sh[row] EXCEPT !.service = serviceType, !.status = K_reservado, !.notes = <<>>,
                             !.claimant = byPhone, !.ts = t]
        ELSE sh[row]]

\* reserveSlotRow, the update of C..G of the row; byPhone holds onlyDigits(byPhone)
ReserveWrite(sh, rowNumber, byPhone, serviceType, t) ==
    [sh EXCEPT ![rowNumber] =
        [@ EXCEPT !.service = serviceType, !.status = K_reservado, !.notes = <<>>,
                  !.claimant = byPhone, !.ts = t]]

\* the row appended by appendAppointmentRow(opts)
AppointmentRow(opts, t) ==
    [creado |-> t, telefono |-> onlyDigits(opts.telefono), nombre |-> opts.nombre,
     email |-> opts.email, servicio |-> opts.servicio, fecha |-> opts.fecha,
     hora |-> opts.hora, estado |-> "CONFIRMADA", slotRow |-> opts.slotRow]

\* type UserState of a new conversation, { state, updatedAt }
NewUserState(st, t) ==
    [state |-> st, serviceType |-> <<>>, chosenDay |-> 0, appointmentDate |-> 0,
     appointmentTime |-> Undef, lastOfferedSlots |-> <<>>, slotsPage |-> -1,
     updatedAt |-> t]

\* startForm(from, serviceType, slots): the new entry of this.forms
startForm(from, serviceType, slots) ==
    LET normalized == AddressTable[from].local
    IN  [idx |-> 0,
         data |-> [nombre |-> <<Undef>>, telefono |-> normalized, email |-> <<Undef>>],
         serviceType |-> serviceType, slots |-> slots,
         autofilledPhone |-> normalized, awaitingPhoneManual |-> FALSE]

-----------------------------------------------------------------------------
(* Outbound messages.  A handler works on a context c: the recipient's     *)
(* UserState and form (each a sequence of length 0 or 1), the messages     *)
(* sent so far, the returned text, and whether an exception escaped.       *)

Msg(kind) == [kind |-> kind, days |-> <<>>, rows |-> <<>>]
Send(c, m) == [c EXCEPT !.out = Append(@, m)]
Return(c, text) == [c EXCEPT !.ret = text]
Throw(c) == [c EXCEPT !.thrown = TRUE]

PageSize == 9
MaxListRows == 10

\* buildSlotPages(slots, pageSize)
RECURSIVE buildSlotPages(_, _)
buildSlotPages(slots, pageSize) ==
    IF slots = <<>> THEN <<>>
    ELSE IF Len(slots) <= pageSize THEN <<slots>>
         ELSE <<SubSeq(slots, 1, pageSize)>> \o
              buildSlotPages(SubSeq(slots, pageSize + 1, Len(slots)), pageSize)

Max(a, b) == IF a >= b THEN a ELSE b
Min(a, b) == IF a <= b THEN a ELSE b
RowId(id, n) == [id |-> id, n |-> n]

\* the rows of the list sent by sendSlotsPaged
SlotPageRows(slots, pageIdx) ==
    LET pages    == buildSlotPages(slots, PageSize)
        n        == Len(pages)
        safePage == Max(0, Min(pageIdx, n - 1))
        page     == IF safePage + 1 \in 1..n THEN pages[safePage + 1] ELSE <<>>
        rows0    == [i \in 1..Len(page) |-> RowId("slot_", page[i].row)]
        rows1    == IF n > 1 /\ safePage < n - 1
                    THEN Append(rows0, RowId("more_", safePage + 1)) ELSE rows0
        rows2    == IF n > 1 /\ safePage > 0
                    THEN <<RowId("more_", safePage - 1)>> \o rows1 ELSE rows1
    IN  IF n > 1 /\ safePage > 0 /\ Len(rows2) > MaxListRows
        THEN SubSeq(rows2, 1, Len(rows2) - 2) \o <<rows2[Len(rows2)]>>
        ELSE rows2

\* the first page is sent whatever page is asked for
sendSlotsPagedFirst(c, slots, pageIdx) ==
    Send(c, [Msg("list_slots") EXCEPT !.rows = SlotPageRows(slots, 0)])

\* sendSlotsPaged(to, dayYMD, slots, pageIdx)
sendSlotsPaged(c, slots, pageIdx) ==
    Send(c, [Msg("list_slots") EXCEPT !.rows = SlotPageRows(slots, pageIdx)])

\* sendNext7Days(to): the list of the next 7 working days, returns ''
sendNext7Days(c, t) ==
    Return(Send(c, [Msg("list_days") EXCEPT !.days = NextSevenDays(t)]), "")


-----------------------------------------------------------------------------
(* WhatsappService: the handlers, as functions of the context              *)

UndefText == <<Undef>>
K_sin_especificar == <<"S", "i", "n", " ", "e", "s", "p", "e", "c", "i", "f", "i", "c", "a", "r">>
InSeq(x, s) == \E i \in 1..Len(s) : s[i] = x
\* this.userStates.get(from) || { state: st }
GetOr(c, st) == IF c.us = <<>> THEN NewUserState(st, 0) ELSE c.us[1]
SetUs(c, st) == [c EXCEPT !.us = <<st>>]
SetForm(c, f) == [c EXCEPT !.f = <<f>>]

PromptOf(key) ==
    CASE key = "nombre" -> "ask_nombre" [] key = "telefono" -> "ask_telefono"
      [] key = "email" -> "ask_email"

\* askNext(from)
askNext(c) ==
    IF c.f = <<>> THEN c
    ELSE LET f == c.f[1] IN
         IF f.idx >= Len(FORM_APPT) THEN Throw(c)    \* field is undefined: field.key throws
         ELSE LET key == FORM_APPT[f.idx + 1] IN
              IF key = "telefono" /\ ~f.awaitingPhoneManual
              THEN Send(c, Msg("ask_telefono_buttons"))
              ELSE Send(c, Msg(PromptOf(key)))

\* sendServiceOptions(to)
sendServiceOptions(c) == Return(Send(c, Msg("list_services")), "")

\* getHelpMessage(currentState)
getHelpMessage(currentState) ==
    CASE currentState = "initial" -> "help_initial"
      [] currentState = "awaiting_service_type" -> "help_service"
      [] currentState = "awaiting_day_choice" -> "help_day"
      [] currentState = "awaiting_time_choice" -> "help_time"
      [] OTHER -> "help_default"

\* handleInitialMessage(text, from)
handleInitialMessage(c, text, t) ==
    LET tt == trim(toLowerCase(text))
        matched == findServiceFromText(tt)
    IN  IF IsGreeting(tt)
        THEN Return(SetUs(Send(Send(c, Msg("welcome")), Msg("main_menu")),
                          NewUserState("awaiting_service_type", t)), "")
        ELSE IF includes(tt, K_gracias) THEN Return(c, "gracias")
        ELSE IF IsFarewell(tt) THEN Return(c, "hasta_luego")
        ELSE IF matched # 0
        THEN sendNext7Days(
                SetUs(c, [NewUserState("awaiting_day_choice", t) EXCEPT
                            !.serviceType = SERVICE_CATALOG[matched].label]), t)
        ELSE Return(c, "no_entendi")

\* handleServiceSelection(text, from)
handleServiceSelection(c, text, t) ==
    IF trim(toLowerCase(text)) \in ServiceMenuWords THEN sendServiceOptions(c)
    ELSE LET matched == findServiceFromText(text)
             st == GetOr(c, "awaiting_service_type")
         IN  sendNext7Days(
                SetUs(c, [st EXCEPT
                    !.serviceType = IF matched # 0 THEN SERVICE_CATALOG[matched].label ELSE text,
                    !.state = "awaiting_day_choice", !.updatedAt = t]), t)

\* the day is also written as the appointment's date, before any claim
DayChosenAndBooked(st, dayYMD, t) ==
    [st EXCEPT !.chosenDay = dayYMD, !.appointmentDate = dayYMD,
               !.state = "awaiting_time_choice", !.updatedAt = t]

\* handleDaySelected: st.chosenDay = dayYMD; st.state = 'awaiting_time_choice'
DayChosen(st, dayYMD, t) ==
    [st EXCEPT !.chosenDay = dayYMD, !.state = "awaiting_time_choice", !.updatedAt = t]

\* handleDaySelected without the test of the freshly computed day list
handleDaySelectedUnchecked(c, dayYMD, sh, t) ==
    LET st == DayChosen(GetOr(c, "awaiting_day_choice"), dayYMD, t)
        slots == getSlotsForDate(sh, dayYMD)
    IN  IF slots = <<>>
        THEN sendNext7Days(Send(SetUs(c, st), Msg("no_slots_for_day")), t)
        ELSE Return(sendSlotsPaged(
               SetUs(c, [st EXCEPT !.lastOfferedSlots = slots, !.slotsPage = 0]),
               slots, 0), "")

\* handleDaySelected(dayYMD, from)
handleDaySelected(c, dayYMD, sh, t) ==
    IF ~InSeq(dayYMD, NextSevenDays(t)) THEN sendNext7Days(c, t)
    ELSE LET st == DayChosen(GetOr(c, "awaiting_day_choice"), dayYMD, t)
             slots == getSlotsForDate(sh, dayYMD)
         IN  IF slots = <<>>
             THEN sendNext7Days(Send(SetUs(c, st), Msg("no_slots_for_day")), t)
             ELSE Return(sendSlotsPaged(
                    SetUs(c, [st EXCEPT !.lastOfferedSlots = slots, !.slotsPage = 0]),
                    slots, 0), "")

\* st.lastOfferedSlots?.find((s) => s.row === row) || null, as a sequence of 0 or 1
FindOffered(st, row) ==
    LET hits == SelectSeq(st.lastOfferedSlots, LAMBDA s : s.row = row)
    IN  IF hits = <<>> THEN <<>> ELSE <<hits[1]>>

\* handleSlotRowSelected(row, from) up to the call of reserveSlotRow: it returns
\* at once without a chosen day, else the call is pending (c.call = <<row>>)
handleSlotRowSelected(c, row) ==
    IF c.us = <<>> \/ c.us[1].chosenDay = 0 THEN Return(c, "primero_elige_dia")
    ELSE [c EXCEPT !.call = <<row>>]

\* handleSlotRowSelected after reserveSlotRow answered false (or threw)
\* the first field is asked for although the claim was refused
SlotNotReservedFormShown(c, sh, t) ==
    LET st == c.us[1]
        c1 == Send(Send(c, Msg("slot_taken")), Msg("ask_nombre"))
    IN  sendNext7Days(c1, t)

SlotNotReserved(c, sh, t) ==
    LET st == c.us[1]
        c1 == Send(c, Msg("slot_taken"))
        slots == getSlotsForDate(sh, st.chosenDay)
    IN  IF slots = <<>> THEN sendNext7Days(c1, t)
        ELSE Return(sendSlotsPaged(
                SetUs(c1, [st EXCEPT !.lastOfferedSlots = slots, !.slotsPage = 0]),
                slots, 0), "")

\* handleSlotRowSelected after reserveSlotRow answered true
SlotReserved(c, from, row, chosenFromState, t) ==
    LET st == c.us[1]
        chosen == IF chosenFromState # <<>> THEN chosenFromState[1]
                  ELSE SlotOffered(row, st.chosenDay, "")
        st1 == [st EXCEPT !.appointmentDate = st.chosenDay, !.appointmentTime = chosen.time,
                          !.state = "collecting_form", !.updatedAt = t]
        svc == IF st.serviceType = <<>> THEN K_servicio ELSE st.serviceType
    IN  Return(askNext(SetForm(SetUs(c, st1), startForm(from, svc, <<chosen>>))), "")

\* the input is stored whatever the verdict
AcceptedAlways(valid) == TRUE

\* handleFormInput: if (valid !== true) return the message, else go on
Accepted(valid) == valid = "ok"

\* handleFormInput(from, text)
handleFormInput(c, text) ==
    IF c.f = <<>> THEN Return(c, "")
    ELSE LET f == c.f[1] IN
    IF f.idx >= Len(FORM_APPT) THEN Throw(c)        \* field is undefined: field.key throws
    ELSE LET key == FORM_APPT[f.idx + 1] IN
    IF key = "telefono" /\ f.awaitingPhoneManual
    THEN LET valid == ValidateOf(key, text) IN
         IF ~Accepted(valid) THEN Return(c, valid)
         ELSE Return(askNext(SetForm(c,
                [f EXCEPT !.data[key] = TrimOf(NormalizeOf(key, text)),
                          !.awaitingPhoneManual = FALSE, !.idx = @ + 1])), "")
    ELSE LET value == NormalizeOf(key, text)
             valid == ValidateOf(key, value)
         IN  IF ~Accepted(valid) THEN Return(c, valid)
             ELSE LET f1 == [f EXCEPT !.data[key] = TrimOf(value), !.idx = @ + 1] IN
                  IF f1.idx >= Len(FORM_APPT)
                  THEN Return(Send(SetForm(c, f1), Msg("summary")), "")
                  ELSE Return(askNext(SetForm(c, f1)), "")

OrEmpty(v) == IF v = UndefText THEN <<>> ELSE v

\* the form is dropped when the append fails
NotSavedFormDropped(c) == Return([c EXCEPT !.f = <<>>], "append_failed")

\* finalizeFormConfirmation, the catch of appendAppointmentRow: the message is returned
NotSaved(c) == Return(c, "append_failed")

\* finalizeFormConfirmation(from); appendOk: appendAppointmentRow did not throw;
\* receipt: "notice_failed" (sendMessage of the confirmation notice threw), "sent",
\* "undeliverable" (both deliveries failed) or "pdf_error"
finalizeFormConfirmation(c, appendOk, receipt, t) ==
    IF c.f = <<>> \/ c.us = <<>> THEN Return(c, "sin_registro")
    ELSE IF ~appendOk THEN NotSaved(c)
    ELSE LET f == c.f[1]
             row == AppointmentRow(
                      [telefono |-> f.data.telefono, nombre |-> OrEmpty(f.data.nombre),
                       email |-> OrEmpty(f.data.email),
                       servicio |-> IF f.serviceType = <<>> THEN K_sin_especificar
                                    ELSE f.serviceType,
                       fecha |-> f.slots[1].date, hora |-> f.slots[1].time,
                       slotRow |-> f.slots[1].row], t)
             c0 == [c EXCEPT !.appt = <<row>>]
             c1 == Send(c0, Msg("cita_confirmada"))
             c2 == CASE receipt = "sent" -> Send(c1, Msg("pdf_document"))
                     [] receipt = "undeliverable" -> Send(c1, Msg("pdf_not_attached"))
                     [] OTHER -> c1
         IN  IF receipt = "notice_failed" THEN Throw(c0)
             ELSE Return([c2 EXCEPT !.f = <<>>, !.us = <<NewUserState("initial", t)>>],
                         "algo_mas")

IndexOfField(key) ==
    IF InSeq(key, FORM_APPT) THEN (CHOOSE i \in 1..Len(FORM_APPT) : FORM_APPT[i] = key) - 1
    ELSE -1

\* a button or list reply: id is the fixed id or the prefix, n and s its argument
Button(id, n, s) == [id |-> id, n |-> n, s |-> s]

\* handleButtonAction(buttonId, from, us)
handleButtonAction(c, b, from, sh, t, appendOk, receipt) ==
    CASE b.id = "day_"  -> handleDaySelected(c, b.n, sh, t)
      [] b.id = "slot_" -> handleSlotRowSelected(c, b.n)
      [] b.id = "more_" ->
            IF c.us = <<>> \/ c.us[1].chosenDay = 0 \/ c.us[1].lastOfferedSlots = <<>>
            THEN Return(c, "primero_elige_dia")
            ELSE Return(sendSlotsPaged(SetUs(c, [c.us[1] EXCEPT !.slotsPage = b.n]),
                                       c.us[1].lastOfferedSlots, b.n), "")
      [] b.id = "tel_yes" ->
            IF c.f = <<>> THEN Return(c, "")
            ELSE Return(askNext(SetForm(c,
                    [c.f[1] EXCEPT !.data.telefono = c.f[1].autofilledPhone,
                                   !.awaitingPhoneManual = FALSE, !.idx = @ + 1])), "")
      [] b.id = "tel_no" ->
            IF c.f = <<>> THEN Return(c, "")
            ELSE Return(Send(SetForm(c, [c.f[1] EXCEPT !.awaitingPhoneManual = TRUE]),
                             Msg("ask_telefono_manual")), "")
      [] b.id = "inicio" ->
            Return(Send(SetUs(c, NewUserState("awaiting_service_type", t)),
                        Msg("welcome_buttons")), "")
      [] b.id = "ver_servicios" ->
            Return(Send(sendServiceOptions(c), Msg("what_next_buttons")), "")
      [] b.id = "agendar_cita" ->
            sendServiceOptions(Send(
                SetUs(c, [c.us[1] EXCEPT !.state = "awaiting_service_type", !.updatedAt = t]),
                Msg("elige_servicio")))
      [] b.id = "hablar_asesor" -> Return(Send(c, Msg("list_areas")), "")
      [] b.id = "horario" -> Return(Send(c, Msg("hours")), "")
      [] b.id = "ubicacion" -> Return(Send(c, Msg("location")), "")
      [] b.id = "confirm_yes" ->
            IF c.f # <<>> THEN finalizeFormConfirmation(c, appendOk, receipt, t)
            ELSE Return(c, "no_form_to_confirm")
      [] b.id = "confirm_edit" -> Return(Send(c, Msg("edit_buttons")), "")
      [] b.id \in {"edit_nombre", "edit_telefono", "edit_email"} ->
            LET key == CASE b.id = "edit_nombre" -> "nombre"
                         [] b.id = "edit_telefono" -> "telefono"
                         [] OTHER -> "email"
                idx == IndexOfField(key)
            IN  IF c.f # <<>> /\ idx >= 0
                THEN Return(askNext(SetForm(c, [c.f[1] EXCEPT !.idx = idx])), "")
                ELSE Return(c, "no_form_to_edit")
      [] b.id = "serv_" ->
            sendNext7Days(SetUs(c, [GetOr(c, "initial") EXCEPT
                !.serviceType = UnderscoresToSpaces(b.s),
                !.state = "awaiting_day_choice", !.updatedAt = t]), t)
      [] b.id = "area_" -> Return(Send(Send(c, Msg("advisor_intro")), Msg("contact")), "")
      [] OTHER -> Return(c, "no_reconozco")

NoButton == Button("", 0, <<>>)

\* the cancel phrase resets the UserState and keeps the form
CancelledKeepingForm(c, t) ==
    Return([c EXCEPT !.us = <<NewUserState("initial", t)>>], "cancelado")

\* generarRespuesta, the branch of the cancel phrase: a new UserState, the form deleted
Cancelled(c, t) ==
    Return([c EXCEPT !.us = <<NewUserState("initial", t)>>, !.f = <<>>], "cancelado")

\* the help phrase starts the conversation over
HelpedFromStart(c, us) ==
    Return(SetUs(c, NewUserState("initial", us.updatedAt)), getHelpMessage("initial"))

\* generarRespuesta, the branch of the help phrase: the hint of the stage is returned
Helped(c, us) == Return(c, getHelpMessage(us.state))

\* generarRespuesta(text, from, buttonId): c holds what the maps hold for `from`
generarRespuesta(c, text, b, from, sh, t, appendOk, receipt) ==
    LET us == [GetOr(c, "initial") EXCEPT !.updatedAt = t]
        c0 == SetUs(c, us)
    IN  IF SaysCancel(text)
        THEN Cancelled(c0, t)
        ELSE IF SaysHelp(text) THEN Helped(c0, us)
        ELSE IF b # NoButton THEN handleButtonAction(c0, b, from, sh, t, appendOk, receipt)
        ELSE IF c0.f # <<>> THEN handleFormInput(c0, text)
        ELSE CASE us.state = "awaiting_service_type" -> handleServiceSelection(c0, text, t)
               [] us.state = "awaiting_day_choice" -> Return(c0, "selecciona_dia")
               [] us.state = "awaiting_time_choice" -> Return(c0, "elige_hora")
               [] OTHER -> handleInitialMessage(c0, text, t)

-----------------------------------------------------------------------------
(* The events offered to the handlers, and the history kept for the        *)
(* properties.  An event is a text or a button/list reply.                 *)

Event(text, b) == [text |-> text, b |-> b]
ServTributaria == Button("serv_", 0, B_serv_tributaria)
DayButton(d) == Button("day_", d, <<>>)
Plain(id) == Button(id, 0, <<>>)
Receipts == {"sent", "undeliverable", "pdf_error"}
\* what may happen once the booking row is appended
Outcomes == {"notice_failed"} \cup Receipts

\* the end-to-end scenario of one new recipient, event by event
Scenario ==
    << Event(T_hola, NoButton), Event(<<>>, ServTributaria), Event(<<>>, DayButton(DayA)),
       Event(<<>>, Button("slot_", 2, <<>>)), Event(T_nombre, NoButton),
       Event(T_si, NoButton), Event(T_email, NoButton), Event(T_confirmar, NoButton) >>

Stages == {"initial", "awaiting_service_type", "awaiting_day_choice",
           "awaiting_time_choice", "collecting_form"}
StageOf(us) == IF us = <<>> THEN "none" ELSE us[1].state

HistInit ==
    [hadForm |-> FALSE,    \* whether a form existed when the last event arrived
     cancelled |-> FALSE,  \* the last event was a text holding the cancel phrase
     rejected |-> FALSE,   \* the last event was a text the current field's validate rejected
     phone8 |-> <<>>,      \* the normalized text, if the last event was a phone text
                           \* not of 8 digits that normalizes to 8 digits
     claimOk |-> FALSE,    \* reserveSlotRow returned true in the current conversation
     won |-> {},           \* the rows for which reserveSlotRow returned true
     fair |-> FALSE,       \* the pick in flight was of an offered open row, made in
                           \* stage awaiting_time_choice
     race |-> 0,           \* the row of the last pick, if it raced with another pick
     e2e |-> -1,           \* how many events of Scenario the conversation has followed
     refused |-> 0,        \* the row of the last claim, if reserveSlotRow read it, found
                           \* it not open and returned false
     apart |-> 0,          \* the row of the last pick, if it ran together with a pick
                           \* of another row, both rows open
     helped |-> FALSE,     \* the last event was a text holding the help phrase and not
                           \* the cancel phrase
     appendFailed |-> FALSE, \* the last event was a confirmation whose append threw
     filled |-> 0,         \* service with the final validation: 1 once reserveSlotRow
                           \* returned true, then one more for each next event that was a
                           \* text accepted for the fields in their order; else 0
     final |-> <<>>,       \* service with the final validation: if the last event was
                           \* confirm_yes with a form and a UserState, the errors of
                           \* validateAppointmentData and whether a row was appended
     back |-> FALSE,       \* menu bot: the last event was the back button, received
                           \* in a submenu state, and its answer was delivered
     receipt |-> ""]       \* what became of the receipt, if the last event was a
                           \* confirmation whose record was appended

\* the text reaches handleFormInput with a field to fill
ReachesField(r, ev) ==
    /\ ev.b = NoButton
    /\ forms[r] # <<>>
    /\ forms[r][1].idx < Len(FORM_APPT)
    /\ ~SaysCancel(ev.text)
    /\ ~SaysHelp(ev.text)

\* the verdict of the current field's validate on the text: on the text as
\* typed during manual phone entry, else on its normalized form
Verdict(r, text) ==
    LET f == forms[r][1]
        key == FORM_APPT[f.idx + 1]
    IN  IF key = "telefono" /\ f.awaitingPhoneManual THEN ValidateOf(key, text)
        ELSE ValidateOf(key, NormalizeOf(key, text))

IsEightDigits(v) == Len(v) = 8 /\ \A i \in 1..Len(v) : v[i] \in Digits

\* the phone inputs of the normalize-before-validate rule
PhoneCase(r, ev) ==
    IF /\ ReachesField(r, ev)
       /\ FORM_APPT[forms[r][1].idx + 1] = "telefono"
       /\ ~IsEightDigits(ev.text)
       /\ IsEightDigits(NormalizeOf("telefono", ev.text))
    THEN NormalizeOf("telefono", ev.text) ELSE <<>>

\* progress along Scenario made by event ev of recipient r, handled with result c
E2EAfter(r, ev, c) ==
    LET k == hist[r].e2e IN
    IF k \in 0..(Len(Scenario) - 1) /\ ev = Scenario[k + 1]
       /\ (k = 0 => userStates[r] = <<>>)
       /\ (k = 2 => /\ c.us # <<>>
                    /\ [i \in 1..Len(c.us[1].lastOfferedSlots) |-> c.us[1].lastOfferedSlots[i].time]
                         = <<"09:00", "09:30">>)
    THEN (IF k = 3 THEN 3 ELSE k + 1)
    ELSE -1

\* the conversation starts over when the UserState is replaced by a new one
Restarted(c) == c.us # <<>> /\ \E st \in Stages : c.us[1] = NewUserState(st, c.us[1].updatedAt)

Ctx(r) == [us |-> userStates[r], f |-> forms[r], out |-> <<>>, ret |-> "",
           thrown |-> FALSE, appt |-> <<>>, call |-> <<>>]

\* WhatsappController.handleWebhook: a non-empty returned text is sent; an
\* exception is caught and logged
Replied(c) == IF ~c.thrown /\ c.ret # "" THEN Append(c.out, Msg(c.ret)) ELSE c.out

Commit(r, c) ==
    /\ userStates' = [userStates EXCEPT ![r] = c.us]
    /\ forms' = [forms EXCEPT ![r] = c.f]
    /\ out' = [out EXCEPT ![r] = Replied(c)]
    /\ appts' = IF c.appt # <<>> THEN Append(appts, c.appt[1]) ELSE appts

HistAfter(r, ev, c) ==
    [hist[r] EXCEPT
        !.hadForm = (forms[r] # <<>>),
        !.cancelled = (ev.b = NoButton /\ SaysCancel(ev.text)),
        !.rejected = (ReachesField(r, ev) /\ Verdict(r, ev.text) # "ok"),
        !.phone8 = PhoneCase(r, ev),
        !.claimOk = IF Restarted(c) THEN FALSE ELSE @,
        !.fair = FALSE,
        !.race = 0,
        !.e2e = E2EAfter(r, ev, c),
        !.refused = 0,
        !.apart = 0,
        !.helped = (ev.b = NoButton /\ SaysHelp(ev.text) /\ ~SaysCancel(ev.text)),
        !.appendFailed = FALSE,
        !.receipt = ""]

-----------------------------------------------------------------------------
(* The actions.  The result c of a handler is passed as an argument.       *)

NoLoc == [row |-> 0, chosen |-> <<>>]

\* one recipient converses: what it may type and tap.  Texts meant for the form
\* are typed while a form is open
Users == {"u1"}
MenuTexts == {T_hola, T_cancelar}
FormTexts == {T_cancelar, T_nombre, T_telefono, T_tel591, T_email}
TextsFor(r) == IF forms[r] = <<>> THEN MenuTexts ELSE FormTexts
Buttons ==
    {ServTributaria, DayButton(DayA), DayButton(DayOff),
     Plain("tel_yes"), Plain("tel_no"),
     Plain("edit_nombre"), Plain("edit_telefono"), Plain("edit_email"),
     Plain("inicio")}
SlotRows == {2, 4}

\* two recipients go for the rows of the same day
RaceButtons == {ServTributaria, DayButton(DayA)}
RaceRows == {2, 3}

\* the events of Scenario, in any order, the cancel phrase, and the buttons the form offers
E2ETexts == {T_hola, T_nombre, T_si, T_email, T_confirmar, T_cancelar}
E2EButtons == {ServTributaria, DayButton(DayA), Plain("tel_yes")}
E2ERows == {2}

\* no call of getSlotsForDate is followed
NoQuery == [date |-> 0, result |-> <<>>, at |-> "off"]
Quiet == days = <<>> /\ dpc = "off" /\ query = NoQuery

InitWith(h) ==
    /\ now = NowMain
    /\ Quiet
    /\ userStates = [r \in From |-> <<>>]
    /\ forms = [r \in From |-> <<>>]
    /\ sheet = SheetInit
    /\ appts = <<>>
    /\ pc = [r \in From |-> "idle"]
    /\ loc = [r \in From |-> NoLoc]
    /\ out = [r \in From |-> <<>>]
    /\ hist = [r \in From |-> h]

Init == InitWith(HistInit)

\* the effect of an event handled to its end with result c
Handled(r, ev, c) ==
    /\ Commit(r, c)
    /\ hist' = [hist EXCEPT ![r] = HistAfter(r, ev, c)]
    /\ UNCHANGED <<now, days, dpc, query, sheet, pc, loc>>

\* a text message of recipient r
TextEvent(r, text) ==
    /\ pc[r] = "idle"
    /\ Handled(r, Event(text, NoButton),
               generarRespuesta(Ctx(r), text, NoButton, r, sheet, now, TRUE, "sent"))

\* tel_yes adds one to idx wherever the form stands: it is offered up to MaxIdx
WithinIdx(r, b) == b.id = "tel_yes" /\ forms[r] # <<>> => forms[r][1].idx < MaxIdx

\* a button or list reply of recipient r, other than slot_ and confirm_yes
ButtonEvent(r, b) ==
    /\ pc[r] = "idle"
    /\ WithinIdx(r, b)
    /\ Handled(r, Event(<<>>, b),
               generarRespuesta(Ctx(r), <<>>, b, r, sheet, now, TRUE, "sent"))

\* the effect of confirm_yes handled with result c
Confirmed(r, ev, c, appendOk, receipt) ==
    /\ Commit(r, c)
    /\ hist' = [hist EXCEPT ![r] =
                  [HistAfter(r, ev, c) EXCEPT
                     !.appendFailed = (forms[r] # <<>> /\ ~appendOk),
                     !.receipt = IF forms[r] # <<>> /\ appendOk THEN receipt ELSE ""]]
    /\ UNCHANGED <<now, days, dpc, query, sheet, pc, loc>>

\* the reply confirm_yes; the append to Citas, the notice and the receipt may fail
ConfirmYes(r, appendOk, receipt) ==
    /\ pc[r] = "idle"
    /\ Len(appts) < MaxAppts
    /\ Confirmed(r, Event(<<>>, Plain("confirm_yes")),
                 generarRespuesta(Ctx(r), <<>>, Plain("confirm_yes"), r, sheet, now,
                                  appendOk, receipt),
                 appendOk, receipt)

\* the row holds a slot whose status is absent or the open sentinel
OpenSlot(sh, row) ==
    /\ row \in DOMAIN sh
    /\ sh[row].date # 0
    /\ UpperStatus(sh[row].status) \in {<<>>, K_disponible}

\* the pick is of an offered row, open in the sheet, made in awaiting_time_choice
FairPick(r, row) ==
    /\ userStates[r] # <<>>
    /\ userStates[r][1].state = "awaiting_time_choice"
    /\ FindOffered(userStates[r][1], row) # <<>>
    /\ ReserveReadOpen(sheet, row)

\* the effect of slot_<row> up to the call of reserveSlotRow, c the result so far
Picked(r, row, ev, c) ==
    LET racing == IF FairPick(r, row)
                  THEN {q \in From \ {r} : pc[q] # "idle" /\ loc[q].row = row /\ hist[q].fair}
                  ELSE {}
        others == {q \in From \ {r} : pc[q] # "idle"}
        sameRow == {q \in others : loc[q].row = row}
        together == {q \in others : /\ loc[q].row # row
                                     /\ OpenSlot(sheet, row)
                                     /\ OpenSlot(sheet, loc[q].row)}
    IN  /\ Commit(r, c)
        /\ IF c.call = <<>>
           THEN /\ hist' = [hist EXCEPT ![r] = HistAfter(r, ev, c)]
                /\ UNCHANGED <<pc, loc>>
           ELSE /\ pc' = [pc EXCEPT ![r] = "reserve_read"]
                /\ loc' = [loc EXCEPT ![r] = [row |-> row,
                                              chosen |-> FindOffered(c.us[1], row)]]
                /\ hist' = [q \in From |->
                     IF q = r
                     THEN [HistAfter(r, ev, c) EXCEPT
                             !.fair = FairPick(r, row),
                             !.race = IF racing # {} THEN row ELSE 0,
                             !.apart = IF together # {} /\ sameRow = {} THEN row ELSE 0]
                     ELSE IF q \in racing THEN [hist[q] EXCEPT !.race = row, !.apart = 0]
                     ELSE IF q \in sameRow THEN [hist[q] EXCEPT !.apart = 0]
                     ELSE IF q \in together THEN [hist[q] EXCEPT !.apart = loc[q].row]
                     ELSE hist[q]]
        /\ UNCHANGED <<now, days, dpc, query, sheet>>

\* the reply slot_<row>: handleSlotRowSelected runs up to its call of reserveSlotRow
SlotPick(r, row) ==
    /\ pc[r] = "idle"
    /\ Picked(r, row, Event(<<>>, Button("slot_", row, <<>>)),
              generarRespuesta(Ctx(r), <<>>, Button("slot_", row, <<>>), r, sheet, now,
                               TRUE, "sent"))

\* the effect of reserveSlotRow answering false, c the result of the handler
Refused(r, failed, c) ==
    /\ Commit(r, c)
    /\ pc' = [pc EXCEPT ![r] = "idle"]
    /\ loc' = [loc EXCEPT ![r] = NoLoc]
    /\ hist' = [hist EXCEPT ![r] =
                  [@ EXCEPT !.e2e = -1, !.fair = FALSE, !.race = IF failed THEN 0 ELSE @,
                            !.refused = IF failed THEN 0 ELSE loc[r].row,
                            !.apart = IF failed THEN 0 ELSE @]]
    /\ UNCHANGED <<now, days, dpc, query, sheet>>

\* reserveSlotRow reads the row; failed: the request threw after its retries.
\* A row that is not open, or a failure, ends handleSlotRowSelected
ReserveRead(r, failed) ==
    /\ pc[r] = "reserve_read"
    /\ IF ~failed /\ ReserveReadOpen(sheet, loc[r].row)
       THEN /\ pc' = [pc EXCEPT ![r] = "reserve_write"]
            /\ UNCHANGED <<now, days, dpc, query, sheet, userStates, forms, out, appts, loc, hist>>
       ELSE Refused(r, failed, SlotNotReserved([Ctx(r) EXCEPT !.out = out[r]], sheet, now))

\* the effect of reserveSlotRow answering true, c the result of the handler
Granted(r, c) ==
    /\ sheet' = ReserveWrite(sheet, loc[r].row, AddressTable[r].digits, userStates[r][1].serviceType, now)
    /\ Commit(r, c)
    /\ hist' = [hist EXCEPT ![r] =
                  [@ EXCEPT !.claimOk = TRUE, !.won = @ \cup {loc[r].row}, !.fair = FALSE,
                            !.e2e = IF @ = 3 THEN 4 ELSE -1]]
    /\ pc' = [pc EXCEPT ![r] = "idle"]
    /\ loc' = [loc EXCEPT ![r] = NoLoc]
    /\ UNCHANGED <<now, days, dpc, query>>

\* reserveSlotRow writes the row and returns true; handleSlotRowSelected goes on
ReserveWriteStep(r) ==
    /\ pc[r] = "reserve_write"
    /\ Granted(r, SlotReserved([Ctx(r) EXCEPT !.out = out[r]], r, loc[r].row,
                               loc[r].chosen, now))

Next ==
    \/ \E r \in Users : \E text \in TextsFor(r) : TextEvent(r, text)
    \/ \E r \in Users : \E b \in Buttons : ButtonEvent(r, b)
    \/ \E r \in Users : \E row \in SlotRows : SlotPick(r, row)
    \/ \E r \in Users : \E failed \in BOOLEAN : ReserveRead(r, failed)
    \/ \E r \in Users : ReserveWriteStep(r)

Spec == Init /\ [][Next]_vars

NextRace ==
    \/ \E r \in From : \E b \in RaceButtons : ButtonEvent(r, b)
    \/ \E r \in From : \E row \in RaceRows : SlotPick(r, row)
    \/ \E r \in From : ReserveRead(r, FALSE)
    \/ \E r \in From : ReserveWriteStep(r)

SpecRace == Init /\ [][NextRace]_vars

InitE2E == InitWith([HistInit EXCEPT !.e2e = 0])

NextE2E ==
    \/ \E text \in E2ETexts : TextEvent("u1", text)
    \/ \E b \in E2EButtons : ButtonEvent("u1", b)
    \/ \E row \in E2ERows : SlotPick("u1", row)
    \/ ReserveRead("u1", FALSE)
    \/ ReserveWriteStep("u1")
    \/ \E appendOk \in BOOLEAN : \E receipt \in Outcomes : ConfirmYes("u1", appendOk, receipt)

SpecE2E == InitE2E /\ [][NextE2E]_vars

\* getNextWorkingDays(7) is called once, at an instant of the two years modelled
Instants ==
    {DateUTC(FirstYear, 1, 1) + d * HoursPerDay + h : d \in 0..(SpanDays - 1), h \in {2, 12}}

InitDays ==
    /\ now \in Instants
    /\ days = <<>>
    /\ dpc = "call"
    /\ query = NoQuery
    /\ userStates = [r \in From |-> <<>>]
    /\ forms = [r \in From |-> <<>>]
    /\ sheet = SheetInit
    /\ appts = <<>>
    /\ pc = [r \in From |-> "idle"]
    /\ loc = [r \in From |-> NoLoc]
    /\ out = [r \in From |-> <<>>]
    /\ hist = [r \in From |-> HistInit]

ListDays ==
    /\ dpc = "call"
    /\ days' = getNextWorkingDays(now, 7)
    /\ dpc' = "done"
    /\ UNCHANGED <<now, query, userStates, forms, sheet, appts, pc, loc, out, hist>>

NextDays == ListDays

SpecDays == InitDays /\ [][NextDays]_vars

\* getSlotsForDate is called once, on a sheet whose rows 2..4 hold any slots of two
\* days, in any order, or nothing
SlotTimes == {"09:00", "09:30", "10:00"}
SlotStatuses == {<<>>, K_disponible, K_reservado}
RowChoices ==
    {BlankRow} \cup
    {[BlankRow EXCEPT !.date = d, !.time = tm, !.status = st] :
        d \in {DayA, DayB}, tm \in SlotTimes, st \in SlotStatuses}
Sheets == {[row \in Rows |-> IF row \in DOMAIN f THEN f[row] ELSE BlankRow] :
             f \in [2..4 -> RowChoices]}

InitSlots ==
    /\ now = NowMain
    /\ days = <<>>
    /\ dpc = "off"
    /\ query \in {[NoQuery EXCEPT !.date = d, !.at = "call"] : d \in {DayA, DayB}}
    /\ userStates = [r \in From |-> <<>>]
    /\ forms = [r \in From |-> <<>>]
    /\ sheet \in Sheets
    /\ appts = <<>>
    /\ pc = [r \in From |-> "idle"]
    /\ loc = [r \in From |-> NoLoc]
    /\ out = [r \in From |-> <<>>]
    /\ hist = [r \in From |-> HistInit]

ListSlots ==
    /\ query.at = "call"
    /\ query' = [query EXCEPT !.result = getSlotsForDate(sheet, query.date), !.at = "done"]
    /\ UNCHANGED <<now, days, dpc, userStates, forms, sheet, appts, pc, loc, out, hist>>

NextSlots == ListSlots

SpecSlots == InitSlots /\ [][NextSlots]_vars

\* one recipient asks for help at every stage, while the clock advances
TextsOfHelp == {T_hola, T_ayuda, T_nombre}
HelpButtons == {ServTributaria, DayButton(DayA)}
HelpRows == {2}

\* an hour passes
Tick ==
    /\ now < NowMain + MaxTicks
    /\ now' = now + 1
    /\ UNCHANGED <<days, dpc, query, userStates, forms, sheet, appts, pc, loc, out, hist>>

NextHelp ==
    \/ \E text \in TextsOfHelp : TextEvent("u1", text)
    \/ \E b \in HelpButtons : ButtonEvent("u1", b)
    \/ \E row \in HelpRows : SlotPick("u1", row)
    \/ ReserveRead("u1", FALSE)
    \/ ReserveWriteStep("u1")
    \/ Tick

SpecHelp == Init /\ [][NextHelp]_vars

\* two recipients and the only slot of a day: u1 goes through the menus and picks
\* among two days, u2 picks the day of the single slot and takes it
LastSlotButtons(r) ==
    IF r = "u1" THEN {ServTributaria, DayButton(DayA), DayButton(DayB)}
    ELSE {DayButton(DayB)}
LastSlotRows == {4}

NextLastSlot ==
    \/ \E r \in From : \E b \in LastSlotButtons(r) : ButtonEvent(r, b)
    \/ \E r \in From : \E row \in LastSlotRows : SlotPick(r, row)
    \/ \E r \in From : ReserveRead(r, FALSE)
    \/ \E r \in From : ReserveWriteStep(r)

SpecLastSlot == Init /\ [][NextLastSlot]_vars

\* one recipient pages through the slots of a seeded day, which fill more than
\* one page, while the clock advances; it may pick a day that is not listed and
\* take a slot of the second page
SeededSheet ==
    [row \in 2..(Len(SeedTimes) + 1) |->
        [BlankRow EXCEPT !.date = DayA, !.time = SeedTimes[row - 1],
                         !.status = K_disponible]]
MoreButtons == {Button("more_", n, <<>>) : n \in 0..2}
PageTexts == {T_cancelar}
PageButtons == {DayButton(DayA), DayButton(DayOff)} \cup MoreButtons
PageRows == {11}

InitPages ==
    /\ now = NowMain
    /\ Quiet
    /\ userStates = [r \in From |-> <<>>]
    /\ forms = [r \in From |-> <<>>]
    /\ sheet = SeededSheet
    /\ appts = <<>>
    /\ pc = [r \in From |-> "idle"]
    /\ loc = [r \in From |-> NoLoc]
    /\ out = [r \in From |-> <<>>]
    /\ hist = [r \in From |-> HistInit]

NextPages ==
    \/ \E text \in PageTexts : TextEvent("u1", text)
    \/ \E b \in PageButtons : ButtonEvent("u1", b)
    \/ \E row \in PageRows : SlotPick("u1", row)
    \/ ReserveRead("u1", FALSE)
    \/ ReserveWriteStep("u1")
    \/ Tick

SpecPages == InitPages /\ [][NextPages]_vars

\* one recipient pages through the slots of a day that holds from no slot up to
\* MaxDaySlots open slots
DayTimes == SeedTimes \o LateTimes
LongDaySheet(n) ==
    [row \in 2..(n + 1) |->
        [BlankRow EXCEPT !.date = DayA, !.time = DayTimes[row - 1],
                         !.status = K_disponible]]
LongDayTexts == {T_cancelar}
LongDayButtons == {DayButton(DayA)} \cup MoreButtons

InitLongDay ==
    /\ now = NowMain
    /\ Quiet
    /\ userStates = [r \in From |-> <<>>]
    /\ forms = [r \in From |-> <<>>]
    /\ sheet \in {LongDaySheet(n) : n \in 0..MaxDaySlots}
    /\ appts = <<>>
    /\ pc = [r \in From |-> "idle"]
    /\ loc = [r \in From |-> NoLoc]
    /\ out = [r \in From |-> <<>>]
    /\ hist = [r \in From |-> HistInit]

NextLongDay ==
    \/ \E text \in LongDayTexts : TextEvent("u1", text)
    \/ \E b \in LongDayButtons : ButtonEvent("u1", b)

SpecLongDay == InitLongDay /\ [][NextLongDay]_vars

\* two rows of a day whose status cells were typed by hand: absent, the open
\* sentinel in several letter cases, with or without blanks around it, blanks
\* alone, or other text; one recipient picks the day and claims a row
StatusCells ==
    {<<>>, K_disponible, K_reservado,
     <<"d", "i", "s", "p", "o", "n", "i", "b", "l", "e">>,
     <<"D", "i", "s", "p", "o", "n", "i", "b", "l", "e">>,
     <<"D", "I", "S", "P", "O", "N", "I", "B", "L", "E", " ">>,
     <<" ", "d", "i", "s", "p", "o", "n", "i", "b", "l", "e">>,
     <<" ">>,
     <<"O", "C", "U", "P", "A", "D", "O">>}
StatusSheet(a, b) ==
    [row \in 2..3 |->
        [BlankRow EXCEPT !.date = DayA, !.time = SeedTimes[row - 1],
                         !.status = IF row = 2 THEN a ELSE b]]
StatusButtons == {DayButton(DayA)}
StatusRows == {2, 3}

InitStatus ==
    /\ now = NowMain
    /\ Quiet
    /\ userStates = [r \in From |-> <<>>]
    /\ forms = [r \in From |-> <<>>]
    /\ sheet \in {StatusSheet(a, b) : a \in StatusCells, b \in StatusCells}
    /\ appts = <<>>
    /\ pc = [r \in From |-> "idle"]
    /\ loc = [r \in From |-> NoLoc]
    /\ out = [r \in From |-> <<>>]
    /\ hist = [r \in From |-> HistInit]

NextStatus ==
    \/ \E b \in StatusButtons : ButtonEvent("u1", b)
    \/ \E row \in StatusRows : SlotPick("u1", row)
    \/ ReserveRead("u1", FALSE)
    \/ ReserveWriteStep("u1")

SpecStatus == InitStatus /\ [][NextStatus]_vars

\* findServiceFromText is called once on a text of up to two phrases
ServicePhrases ==
    {<<"i", "m", "p", "u", "e", "s", "t", "o", "s">>,
     <<"F", "i", "s", "c", "a", "l">>,
     <<"c", "o", "n", "t", "r", "a", "t", "o">>,
     <<"j", "u", "r", "i", "d", "i", "c", "o">>,
     <<"j", "u", "r", "í", "d", "i", "c", "o">>,
     <<"C", "o", "n", "t", "a", "b", "i", "l", "i", "d", "a", "d">>,
     <<"a", "s", "e", "s", "o", "r", "í", "a", " ", "l", "e", "g", "a", "l">>,
     <<"A", "S", "E", "S", "O", "R", "I", "A", " ", "T", "R", "I", "B", "U", "T", "A", "R", "I", "A">>,
     <<"e", "m", "p", "l", "e", "o">>,
     <<"l", "i", "b", "r", "o", "s">>,
     <<"h", "o", "l", "a">>,
     <<"s", "a", "t", "i", "s", "f", "e", "c", "h", "o">>}
ServiceTexts ==
    {<<>>} \cup ServicePhrases \cup {a \o <<" ">> \o b : a \in ServicePhrases, b \in ServicePhrases}

InitService ==
    /\ now = NowMain
    /\ days = <<>>
    /\ dpc = "off"
    /\ query \in {[text |-> t, result |-> 0, at |-> "call"] : t \in ServiceTexts}
    /\ userStates = [r \in From |-> <<>>]
    /\ forms = [r \in From |-> <<>>]
    /\ sheet = SheetInit
    /\ appts = <<>>
    /\ pc = [r \in From |-> "idle"]
    /\ loc = [r \in From |-> NoLoc]
    /\ out = [r \in From |-> <<>>]
    /\ hist = [r \in From |-> HistInit]

FindService ==
    /\ query.at = "call"
    /\ query' = [query EXCEPT !.result = findServiceFromText(query.text), !.at = "done"]
    /\ UNCHANGED <<now, days, dpc, userStates, forms, sheet, appts, pc, loc, out, hist>>

NextService == FindService

SpecService == InitService /\ [][NextService]_vars

\* cleanOldStates: the UserStates whose updatedAt is before the cutoff are deleted
SweptStates(us, cutoff) ==
    [r \in DOMAIN us |->
        IF us[r] # <<>> /\ us[r][1].updatedAt < cutoff THEN <<>> ELSE us[r]]

\* the forms are left as they are
SweptFormsKept(us, fs, cutoff) == fs

\* cleanOldStates: a form is deleted if its UserState is gone or is before the cutoff
SweptForms(us, fs, cutoff) ==
    [r \in DOMAIN fs |->
        IF us[r] = <<>> \/ us[r][1].updatedAt < cutoff THEN <<>> ELSE fs[r]]

\* cleanOldStates(), run by the timer of the constructor
cleanOldStates ==
    /\ userStates' = SweptStates(userStates, now - HoursPerDay)
    /\ forms' = SweptForms(SweptStates(userStates, now - HoursPerDay), forms,
                           now - HoursPerDay)
    /\ UNCHANGED <<now, days, dpc, query, sheet, appts, pc, loc, out, hist>>

\* half a day passes; no request to the store or to the recipient is pending
\* that long
HalfDay ==
    /\ now < NowMain + MaxHalfDays * (HoursPerDay \div 2)
    /\ \A r \in From : pc[r] = "idle"
    /\ now' = now + (HoursPerDay \div 2)
    /\ UNCHANGED <<days, dpc, query, userStates, forms, sheet, appts, pc, loc, out, hist>>

\* two recipients at different times: both pick the day, u1 also claims a slot and
\* types its name, while half days pass and the timer sweeps
SweepTexts(r) == IF r = "u1" THEN {T_nombre} ELSE {T_hola}
SweepButtons == {DayButton(DayA)}
SweepRows == {2}

NextSweep ==
    \/ \E r \in From : \E text \in SweepTexts(r) : TextEvent(r, text)
    \/ \E r \in From : \E b \in SweepButtons : ButtonEvent(r, b)
    \/ \E row \in SweepRows : SlotPick("u1", row)
    \/ ReserveRead("u1", FALSE)
    \/ ReserveWriteStep("u1")
    \/ HalfDay
    \/ cleanOldStates

SpecSweep == Init /\ [][NextSweep]_vars

-----------------------------------------------------------------------------
(* The menu bot: the first WhatsappService of whatsapp.service.ts.  Its    *)
(* userStates map holds records of state, lastMenu and updatedAt.          *)

AceMenus == {"home", "atencion", "minicuotas", "empresas", "direccion", "trabajo"}
\* the entries of ATENCION_SUCURSALES, MINI_CUOTAS, COTIZACION_EMPRESAS and
\* TRABAJO_COMUNIDAD, by position; a button of a catalogue carries the prefix as
\* its id and the position of the entry its full id names, 0 if it names none
AtencionIds == {1, 2, 3}
MiniCuotasIds == {1, 2, 3}
EmpresasIds == {1, 2}
TrabajoIds == {1, 2}

\* the record stored with the menu that was shown last as lastMenu
AceUserStateFrom(state, t) == [state |-> state, lastMenu |-> state, updatedAt |-> t]

\* { state, lastMenu: 'home', updatedAt: Date.now() }
AceUserState(state, t) == [state |-> state, lastMenu |-> "home", updatedAt |-> t]

\* the messages are sent, then the state is stored and '' returned; sent: no
\* request to the Graph API threw
AceShown(c, kinds, state, t, sent) ==
    IF ~sent THEN Throw(c)
    ELSE Return(SetUs([c EXCEPT !.out = @ \o [i \in 1..Len(kinds) |-> Msg(kinds[i])]],
                      AceUserState(state, t)), "")

\* sendAceMainMenu, sendSubmenuAtencion, ... : the messages of a menu
MenuKinds(menu) ==
    CASE menu = "atencion"   -> <<"submenu_atencion", "quick_options">>
      [] menu = "minicuotas" -> <<"submenu_minicuotas", "quick_options">>
      [] menu = "empresas"   -> <<"list_empresas", "quick_options">>
      [] menu = "direccion"  -> <<"direccion_horarios", "quick_options">>
      [] menu = "trabajo"    -> <<"list_trabajo", "quick_options">>
      [] OTHER               -> <<"ace_main_menu">>

\* navigateToMenu(to, menu)
navigateToMenu(c, menu, t, sent) ==
    IF menu \in AceMenus \ {"home"} THEN AceShown(c, MenuKinds(menu), menu, t, sent)
    ELSE AceShown(c, MenuKinds("home"), "home", t, sent)

MainMenuButtons ==
    [m_atencion |-> "atencion", m_minicuotas |-> "minicuotas", m_empresas |-> "empresas",
     m_direccion |-> "direccion", m_trabajo |-> "trabajo"]

\* handleButton(from, id)
handleButton(c, b, t, sent) ==
    CASE b.id = "home" -> AceShown(c, MenuKinds("home"), "home", t, sent)
      [] b.id = "back" -> navigateToMenu(c, IF c.us = <<>> THEN "home" ELSE c.us[1].lastMenu,
                                         t, sent)
      [] b.id \in DOMAIN MainMenuButtons ->
            AceShown(c, MenuKinds(MainMenuButtons[b.id]), MainMenuButtons[b.id], t, sent)
      [] b.id = "atn_" ->
            IF b.n \notin AtencionIds THEN Return(c, "sucursal_no_encontrada")
            ELSE AceShown(c, <<"sucursal_link", "quick_options">>, "atencion", t, sent)
      [] b.id = "mc_" ->
            IF b.n \notin MiniCuotasIds THEN Return(c, "opcion_no_encontrada")
            ELSE AceShown(c, <<"minicuotas_link", "quick_options">>, "minicuotas", t, sent)
      [] b.id = "emp_" ->
            IF b.n \notin EmpresasIds THEN Return(c, "asesor_no_encontrado")
            ELSE AceShown(c, <<"asesor_link", "quick_options">>, "empresas", t, sent)
      [] b.id = "wrk_" ->
            IF b.n \notin TrabajoIds THEN Return(c, "opcion_no_encontrada")
            ELSE AceShown(c, <<"trabajo_text", "quick_options">>, "trabajo", t, sent)
      [] OTHER -> Return(c, "no_reconozco")

\* /(menu|inicio|hola|buenas|hello|hi)/i.test(t)
AceGreetingWords ==
    {<<"m", "e", "n", "u">>, <<"i", "n", "i", "c", "i", "o">>, <<"h", "o", "l", "a">>,
     <<"b", "u", "e", "n", "a", "s">>, <<"h", "e", "l", "l", "o">>, <<"h", "i">>}
AceGreets(t) == \E w \in AceGreetingWords : includes(t, w)

\* /^\d\b/.test(t): a digit that no word character follows
StartsWithOneDigit(t) ==
    /\ Len(t) >= 1
    /\ t[1] \in Digits
    /\ (Len(t) >= 2 => ~IsWordChar(t[2]))

\* map[num]: the button of a number typed as text, if any
NumberButton(d) ==
    CASE d = "1" -> Plain("m_atencion") [] d = "2" -> Plain("m_minicuotas")
      [] d = "3" -> Plain("m_empresas") [] d = "4" -> Plain("m_direccion")
      [] d = "5" -> Plain("m_trabajo") [] OTHER -> NoButton

\* generarRespuesta(text, from, buttonId) of the menu bot, from the stored state on
AceDispatch(c, tt, b, t, sent) ==
    IF b = NoButton /\ AceGreets(tt)
    THEN AceShown(c, <<"ace_greeting", "ace_main_menu">>, "home", t, sent)
    ELSE IF b = NoButton /\ StartsWithOneDigit(tt)
         THEN (IF NumberButton(tt[1]) # NoButton
               THEN handleButton(c, NumberButton(tt[1]), t, sent)
               ELSE Return(c, "escribe_hola"))
         ELSE IF b # NoButton THEN handleButton(c, b, t, sent)
              ELSE Return(c, "escribe_hola")

\* generarRespuesta(text, from, buttonId) of the menu bot
AceGenerarRespuesta(c, text, b, t, sent) ==
    AceDispatch(SetUs(c, [(IF c.us = <<>> THEN AceUserState("home", t) ELSE c.us[1])
                            EXCEPT !.updatedAt = t]),
                toLowerCase(trim(text)), b, t, sent)

\* an event of the menu bot handled with result c
AceHandled(r, b, c) ==
    /\ Commit(r, c)
    /\ hist' = [hist EXCEPT ![r].back =
                  /\ b.id = "back"
                  /\ userStates[r] # <<>>
                  /\ userStates[r][1].state # "home"
                  /\ ~c.thrown]
    /\ UNCHANGED <<now, days, dpc, query, sheet, pc, loc>>

\* a text message to the menu bot
AceTextEvent(r, text, sent) ==
    AceHandled(r, NoButton, AceGenerarRespuesta(Ctx(r), text, NoButton, now, sent))

\* a button or list reply to the menu bot
AceButtonEvent(r, b, sent) ==
    AceHandled(r, b, AceGenerarRespuesta(Ctx(r), <<>>, b, now, sent))

AceTexts == {T_hola, T_nombre, <<"1">>, <<"4">>, <<"9">>, <<"2", " ", "y", "a">>, <<"1", "2">>}
AceButtons ==
    {Plain("home"), Plain("back"), Plain("m_atencion"), Plain("m_trabajo"),
     Button("atn_", 1, <<>>), Button("atn_", 0, <<>>), Button("mc_", 3, <<>>),
     Button("emp_", 1, <<>>), Button("wrk_", 2, <<>>), Plain("confirm_yes")}

NextMenu ==
    \/ \E text \in AceTexts : \E sent \in BOOLEAN : AceTextEvent("u1", text, sent)
    \/ \E b \in AceButtons : \E sent \in BOOLEAN : AceButtonEvent("u1", b, sent)
    \/ Tick

SpecMenu == Init /\ [][NextMenu]_vars

-----------------------------------------------------------------------------
(* The service with a final validation step (part_003).  A definition     *)
(* whose name is that of a definition above carries the suffix 3.         *)

T_omitir == <<"o", "m", "i", "t", "i", "r">>
T_enviar_pdf == <<"e", "n", "v", "i", "a", "r", " ", "p", "d", "f">>
\* ['si', 'sí', 'ok', 'confirmo']
ConfirmWords == {<<"s", "i">>, <<"s", "í">>, <<"o", "k">>,
                 <<"c", "o", "n", "f", "i", "r", "m", "o">>}

\* FORM_APPT[0].validate
ValidateNombre3(v) ==
    LET parts == SplitWords(trim(v), <<>>, <<>>)
    IN  IF Len(parts) >= 2 /\ \A i \in 1..Len(parts) : Len(parts[i]) >= 2
        THEN "ok" ELSE "nombre_y_apellido"

\* /^\d{7,12}$/
IsPhoneDigits(s) == Len(s) \in 7..12 /\ \A i \in 1..Len(s) : s[i] \in Digits

\* FORM_APPT[1].validate
ValidateTelefono3(v) == IF IsPhoneDigits(onlyDigits(v)) THEN "ok" ELSE "numero_invalido"

\* /^[^\s@]+@[^\s@]+\.[^\s@]+$/
MatchesEmail3(s) ==
    /\ \A i \in 1..Len(s) : s[i] # " "
    /\ Cardinality({i \in 1..Len(s) : s[i] = "@"}) = 1
    /\ \E at \in 2..Len(s) : \E dot \in (at + 2)..(Len(s) - 1) : s[at] = "@" /\ s[dot] = "."

\* FORM_APPT[2].validate
ValidateEmail3(v) ==
    IF v = T_omitir \/ MatchesEmail3(trim(v)) THEN "ok" ELSE "email_invalido"

\* field.validate(v)
Validate3(key, v) ==
    CASE key = "nombre"   -> ValidateNombre3(v)
      [] key = "telefono" -> ValidateTelefono3(v)
      [] key = "email"    -> ValidateEmail3(v)

\* field.normalize ? field.normalize(v) : v
NormalizeField3(key, v) ==
    CASE key = "nombre"   -> v
      [] key = "telefono" -> onlyDigits(v)
      [] key = "email"    -> IF v = T_omitir THEN <<>> ELSE trim(v)

\* validateAppointmentData(f): the errors, in the order they are pushed
validateAppointmentData(f) ==
    LET nombre   == f.data.nombre
        telefono == f.data.telefono
        nombreOk == /\ nombre # UndefText
                    /\ nombre # <<>>
                    /\ Len(SplitWords(trim(nombre), <<>>, <<>>)) >= 2
        telOk    == telefono # UndefText /\ telefono # <<>> /\ IsPhoneDigits(telefono)
    IN  (IF f.serviceType = <<>> THEN <<"servicio">> ELSE <<>>)
        \o (IF f.slots = <<>> \/ f.slots[1].date = 0 THEN <<"fecha">> ELSE <<>>)
        \o (IF f.slots = <<>> \/ f.slots[1].time = "" THEN <<"hora">> ELSE <<>>)
        \o (IF ~nombreOk THEN <<"nombre">> ELSE <<>>)
        \o (IF ~telOk THEN <<"telefono">> ELSE <<>>)

\* startForm(from, serviceType, slots): the new entry of this.forms
startForm3(from, serviceType, slots) ==
    [idx |-> 0,
     data |-> [nombre |-> UndefText, telefono |-> AddressTable[from].digits,
               email |-> UndefText],
     serviceType |-> serviceType, slots |-> slots,
     autofilledPhone |-> AddressTable[from].digits]

\* askNext(from)
askNext3(c) ==
    IF c.f = <<>> THEN c
    ELSE IF c.f[1].idx >= Len(FORM_APPT) THEN Throw(c)  \* field is undefined: field.prompt throws
         ELSE Send(c, Msg(PromptOf(FORM_APPT[c.f[1].idx + 1])))

\* the loop over order: the first of nombre, telefono that the errors name
FirstNamedField(errors) ==
    IF InSeq("nombre", errors) THEN "nombre"
    ELSE IF InSeq("telefono", errors) THEN "telefono" ELSE ""

\* handleFormInput and finalizeFormConfirmation after a check that is not ok
CheckNotOk(c, errors, t) ==
    LET c1 == Send(c, Msg("faltan_datos"))
        k  == FirstNamedField(errors)
    IN  IF k # ""
        THEN Return(askNext3(SetForm(c1, [c1.f[1] EXCEPT !.idx = IndexOfField(k)])), "")
        ELSE Return(SetUs(c1, [GetOr(c1, "initial") EXCEPT
                                 !.state = "awaiting_service_type", !.updatedAt = t]),
                    "volvamos_servicio")

\* the value that handleFormInput validates for the current field
FieldValue3(f, text) ==
    LET key == FORM_APPT[f.idx + 1]
    IN  IF key = "telefono" /\ normalize(text) \in ConfirmWords THEN f.autofilledPhone
        ELSE NormalizeField3(key, text)

\* handleFormInput(from, text)
handleFormInput3(c, text, t) ==
    IF c.f = <<>> THEN Return(c, "")
    ELSE LET f == c.f[1] IN
    IF f.idx >= Len(FORM_APPT) THEN Throw(c)     \* field is undefined: field.normalize throws
    ELSE LET key   == FORM_APPT[f.idx + 1]
             value == FieldValue3(f, text)
             valid == Validate3(key, value)
         IN  IF valid # "ok" THEN Return(c, valid)
             ELSE LET f1 == [f EXCEPT !.data[key] = trim(value), !.idx = @ + 1]
                      c1 == SetForm(c, f1)
                  IN  IF f1.idx >= Len(FORM_APPT)
                      THEN (IF validateAppointmentData(f1) # <<>>
                            THEN CheckNotOk(c1, validateAppointmentData(f1), t)
                            ELSE Return(Send(c1, Msg("summary")), ""))
                      ELSE Return(askNext3(c1), "")

\* sendPdfDocAndLink within its try: the document or the link is sent ("sent"),
\* neither ("undeliverable"), or the generation throws ("pdf_error")
sendPdfDocAndLink(c, receipt) ==
    CASE receipt = "sent" -> Send(c, Msg("pdf_document"))
      [] receipt = "undeliverable" -> Send(c, Msg("pdf_not_attached"))
      [] OTHER -> Throw(c)

\* finalizeFormConfirmation(from); appendOk: appendAppointmentRow did not throw
finalizeFormConfirmation3(c, appendOk, receipt, t) ==
    IF c.f = <<>> \/ c.us = <<>> THEN Return(c, "sin_registro")
    ELSE LET f == c.f[1] IN
    IF validateAppointmentData(f) # <<>> THEN CheckNotOk(c, validateAppointmentData(f), t)
    ELSE IF ~appendOk THEN Return(c, "append_failed")
    ELSE LET row == AppointmentRow(
                      [telefono |-> f.data.telefono, nombre |-> f.data.nombre,
                       email |-> OrEmpty(f.data.email),
                       servicio |-> f.serviceType,
                       fecha |-> f.slots[1].date, hora |-> f.slots[1].time,
                       slotRow |-> f.slots[1].row], t)
             c1 == Send([c EXCEPT !.appt = <<row>>], Msg("cita_confirmada"))
             c2 == sendPdfDocAndLink(c1, receipt)
             c3 == IF c2.thrown THEN Send(c1, Msg("pdf_no_enviado")) ELSE c2
         IN  Return([c3 EXCEPT !.f = <<>>, !.us = <<NewUserState("initial", t)>>],
                    "algo_mas")

\* sendListMessage of the hours of a day: at most 10 rows are kept
sendSlotList(c, slots) ==
    LET n == Min(Len(slots), MaxListRows)
    IN  Send(c, [Msg("list_slots") EXCEPT !.rows = [i \in 1..n |-> RowId("slot_", slots[i].row)]])

\* handleDaySelected(dayYMD, from)
handleDaySelected3(c, dayYMD, sh, t) ==
    IF ~InSeq(dayYMD, NextSevenDays(t)) THEN sendNext7Days(c, t)
    ELSE LET st == DayChosen(GetOr(c, "awaiting_day_choice"), dayYMD, t)
             slots == getSlotsForDate(sh, dayYMD)
         IN  IF slots = <<>>
             THEN sendNext7Days(Send(SetUs(c, st), Msg("no_slots_for_day")), t)
             ELSE Return(sendSlotList(SetUs(c, st), slots), "")

\* reserveSlotRow(row, from, serviceType).catch(() => false); failed: a request threw
reserveSlotRow(sh, row, failed) == ~failed /\ ReserveReadOpen(sh, row)

\* the sheet after handleSlotRowSelected(row, from)
SheetAfterPick(c, row, from, sh, t, failed) ==
    IF c.us # <<>> /\ c.us[1].chosenDay # 0 /\ reserveSlotRow(sh, row, failed)
    THEN ReserveWrite(sh, row, AddressTable[from].digits, c.us[1].serviceType, t)
    ELSE sh

\* handleSlotRowSelected(row, from)
handleSlotRowSelected3(c, row, from, sh, t, failed) ==
    IF c.us = <<>> \/ c.us[1].chosenDay = 0 THEN Return(c, "primero_elige_dia")
    ELSE LET st == c.us[1] IN
    IF ~reserveSlotRow(sh, row, failed)
    THEN LET c1 == Send(c, Msg("slot_taken"))
             slots == getSlotsForDate(sh, st.chosenDay)
         IN  IF slots = <<>> THEN sendNext7Days(c1, t)
             ELSE Return(sendSlotList(c1, slots), "")
    ELSE LET rSlots == getSlotsForDate(SheetAfterPick(c, row, from, sh, t, failed),
                                       st.chosenDay)
             hits   == SelectSeq(rSlots, LAMBDA s : s.row = row)
             chosen == IF hits # <<>> THEN hits[1] ELSE SlotOffered(row, st.chosenDay, "")
             st1    == [st EXCEPT !.appointmentDate = st.chosenDay,
                                  !.appointmentTime = chosen.time,
                                  !.state = "collecting_form", !.updatedAt = t]
             svc    == IF st.serviceType = <<>> THEN K_servicio ELSE st.serviceType
         IN  Return(askNext3(SetForm(SetUs(c, st1), startForm3(from, svc, <<chosen>>))), "")

\* handleAppointmentConfirmation('sí', from), as the reply agendar_si calls it
handleAppointmentConfirmation(c, t) ==
    sendServiceOptions(SetUs(c, [GetOr(c, "awaiting_appointment_confirmation") EXCEPT
                                   !.state = "awaiting_service_type", !.updatedAt = t]))

\* handleButtonAction(buttonId, from, us)
handleButtonAction3(c, b, from, sh, t, failed, appendOk, receipt) ==
    CASE b.id = "day_"  -> handleDaySelected3(c, b.n, sh, t)
      [] b.id = "slot_" -> handleSlotRowSelected3(c, b.n, from, sh, t, failed)
      [] b.id = "servicios" -> sendServiceOptions(c)
      [] b.id = "agendar_cita" ->
            sendServiceOptions(
                SetUs(c, [c.us[1] EXCEPT !.state = "awaiting_service_type", !.updatedAt = t]))
      [] b.id = "agendar_si" -> handleAppointmentConfirmation(c, t)
      [] b.id = "agendar_no" ->
            Return([c EXCEPT !.us = <<NewUserState("initial", t)>>, !.f = <<>>], "de_acuerdo")
      [] b.id = "confirm_yes" ->
            IF c.f # <<>> THEN finalizeFormConfirmation3(c, appendOk, receipt, t)
            ELSE Return(c, "no_form_to_confirm")
      [] b.id = "confirm_edit" -> Return(Send(c, Msg("edit_buttons")), "")
      [] b.id \in {"edit_nombre", "edit_telefono", "edit_email"} ->
            LET key == CASE b.id = "edit_nombre" -> "nombre"
                         [] b.id = "edit_telefono" -> "telefono"
                         [] OTHER -> "email"
            IN  IF c.f # <<>>
                THEN Return(askNext3(SetForm(c, [c.f[1] EXCEPT !.idx = IndexOfField(key)])), "")
                ELSE Return(c, "no_form_to_edit")
      [] b.id = "serv_" ->
            sendNext7Days(SetUs(c, [GetOr(c, "initial") EXCEPT
                !.serviceType = UnderscoresToSpaces(b.s),
                !.state = "awaiting_day_choice", !.updatedAt = t]), t)
      [] OTHER -> Return(c, "no_reconozco")

\* handleInitialMessage(text, from)
handleInitialMessage3(c, text, t) ==
    LET tt == trim(toLowerCase(text))
        matched == findServiceFromText(tt)
    IN  IF IsGreeting(tt)
        THEN Return(SetUs(Send(c, Msg("welcome_buttons")),
                          NewUserState("awaiting_service_type", t)), "")
        ELSE IF includes(tt, K_gracias) THEN Return(c, "gracias")
        ELSE IF IsFarewell(tt) THEN Return(c, "hasta_luego")
        ELSE IF matched # 0
        THEN sendNext7Days(
                SetUs(c, [NewUserState("awaiting_day_choice", t) EXCEPT
                            !.serviceType = SERVICE_CATALOG[matched].label]), t)
        ELSE Return(c, "no_entendi")

\* generarRespuesta, the branch of the text 'enviar pdf'
ResendPdf(c, from, receipt) ==
    IF \/ c.us[1].appointmentDate = 0
       \/ c.us[1].appointmentTime \in {Undef, ""}
       \/ c.us[1].serviceType = <<>>
    THEN Return(c, "no_cita_en_memoria")
    ELSE LET data == IF c.f # <<>> THEN c.f[1].data
                     ELSE [nombre |-> UndefText, telefono |-> AddressTable[from].digits,
                           email |-> UndefText]
             temp == [data |-> data, serviceType |-> c.us[1].serviceType,
                      slots |-> <<SlotOffered(-1, c.us[1].appointmentDate,
                                              c.us[1].appointmentTime)>>]
         IN  IF validateAppointmentData(temp) # <<>> THEN Return(c, "faltan_datos_comprobante")
             ELSE IF sendPdfDocAndLink(c, receipt).thrown THEN Return(c, "no_pude_enviar")
             ELSE Return(sendPdfDocAndLink(c, receipt), "")

\* generarRespuesta(text, from, buttonId).  No handler stores the state
\* awaiting_appointment_confirmation, so its case of the switch is left out
generarRespuesta3(c, text, b, from, sh, t, failed, appendOk, receipt) ==
    LET us == [GetOr(c, "initial") EXCEPT !.updatedAt = t]
        c0 == SetUs(c, us)
        cleanedText == toLowerCase(trim(text))
    IN  IF includes(cleanedText, K_cancelar)
        THEN Return([c0 EXCEPT !.us = <<NewUserState("initial", t)>>, !.f = <<>>], "cancelado")
        ELSE IF includes(cleanedText, K_ayuda) THEN Return(c0, getHelpMessage(us.state))
        ELSE IF cleanedText = T_enviar_pdf THEN ResendPdf(c0, from, receipt)
        ELSE IF b # NoButton
        THEN handleButtonAction3(c0, b, from, sh, t, failed, appendOk, receipt)
        ELSE IF c0.f # <<>> THEN handleFormInput3(c0, text, t)
        ELSE CASE us.state = "awaiting_service_type" -> handleServiceSelection(c0, text, t)
               [] us.state = "awaiting_day_choice" -> Return(c0, "selecciona_dia")
               [] us.state = "awaiting_time_choice" -> Return(c0, "elige_hora")
               [] OTHER -> handleInitialMessage3(c0, text, t)

\* the text reaches handleFormInput with a field to fill and is accepted for it
AcceptedText3(r, text) ==
    /\ forms[r] # <<>>
    /\ forms[r][1].idx < Len(FORM_APPT)
    /\ ~includes(toLowerCase(trim(text)), K_cancelar)
    /\ ~includes(toLowerCase(trim(text)), K_ayuda)
    /\ toLowerCase(trim(text)) # T_enviar_pdf
    /\ Validate3(FORM_APPT[forms[r][1].idx + 1], FieldValue3(forms[r][1], text)) = "ok"

\* an event handled by the service with the final validation
Handled3(r, c, filled, final, won) ==
    /\ Commit(r, c)
    /\ hist' = [hist EXCEPT ![r] = [HistInit EXCEPT !.filled = filled, !.final = final,
                                                    !.won = won]]
    /\ UNCHANGED <<now, days, dpc, query, pc, loc>>

\* a text message
TextEvent3(r, text) ==
    /\ Handled3(r, generarRespuesta3(Ctx(r), text, NoButton, r, sheet, now, FALSE, TRUE, "sent"),
                IF /\ hist[r].filled >= 1
                   /\ AcceptedText3(r, text)
                   /\ forms[r][1].idx = hist[r].filled - 1
                THEN hist[r].filled + 1 ELSE 0,
                <<>>, hist[r].won)
    /\ UNCHANGED sheet

\* a button or list reply other than slot_ and confirm_yes
ButtonEvent3(r, b) ==
    /\ Handled3(r, generarRespuesta3(Ctx(r), <<>>, b, r, sheet, now, FALSE, TRUE, "sent"),
                0, <<>>, hist[r].won)
    /\ UNCHANGED sheet

\* the reply slot_<row>; one conversation is followed, so no other handler runs
\* between the requests of reserveSlotRow and getSlotsForDate
SlotPick3(r, row, failed) ==
    LET granted == /\ userStates[r] # <<>>
                   /\ userStates[r][1].chosenDay # 0
                   /\ reserveSlotRow(sheet, row, failed)
    IN  /\ Handled3(r, generarRespuesta3(Ctx(r), <<>>, Button("slot_", row, <<>>), r, sheet,
                                         now, failed, TRUE, "sent"),
                    IF granted THEN 1 ELSE 0, <<>>,
                    IF granted THEN hist[r].won \cup {row} ELSE hist[r].won)
        /\ sheet' = SheetAfterPick([Ctx(r) EXCEPT !.us = <<GetOr(Ctx(r), "initial")>>],
                                   row, r, sheet, now, failed)

\* the reply confirm_yes
ConfirmYes3(r, appendOk, receipt) ==
    LET c == generarRespuesta3(Ctx(r), <<>>, Plain("confirm_yes"), r, sheet, now, FALSE,
                               appendOk, receipt)
    IN  /\ Len(appts) < MaxAppts
        /\ Handled3(r, c, 0,
                    IF forms[r] # <<>>
                    THEN <<[errors |-> validateAppointmentData(forms[r][1]),
                            appended |-> c.appt # <<>>]>>
                    ELSE <<>>,
                    hist[r].won)
        /\ UNCHANGED sheet

FinalTexts == {T_hola, T_nombre, T_telefono, T_si, T_email, T_omitir, T_cancelar}
FinalButtons == {ServTributaria, DayButton(DayA), Plain("confirm_edit"), Plain("edit_telefono")}
FinalRows == {2}

NextFinal ==
    \/ \E text \in FinalTexts : TextEvent3("u1", text)
    \/ \E b \in FinalButtons : ButtonEvent3("u1", b)
    \/ \E row \in FinalRows : \E failed \in BOOLEAN : SlotPick3("u1", row, failed)
    \/ \E appendOk \in BOOLEAN : \E receipt \in Receipts : ConfirmYes3("u1", appendOk, receipt)

SpecFinal == Init /\ [][NextFinal]_vars

\* one recipient books: it picks the day, taps a slot row, fills the form, answers
\* the summary with a text or with confirm_yes
BookTexts == {T_nombre, T_email, T_no}
BookButtons == {DayButton(DayA), Plain("tel_yes")}
BookRows == {2, 4}

NextBook ==
    \/ \E text \in BookTexts : TextEvent("u1", text)
    \/ \E b \in BookButtons : ButtonEvent("u1", b)
    \/ \E row \in BookRows : SlotPick("u1", row)
    \/ ReserveRead("u1", FALSE)
    \/ ReserveWriteStep("u1")
    \/ ConfirmYes("u1", TRUE, "sent")

SpecBook == Init /\ [][NextBook]_vars

-----------------------------------------------------------------------------
(* The properties                                                          *)

\* C1 - No double booking: for any slot row, of the claim attempts made on it
\* for two different recipients, whose read and write steps may interleave in
\* any order, at most one returns true.
NoDoubleBooking ==
    \A r1, r2 \in From : r1 # r2 => hist[r1].won \cap hist[r2].won = {}

RaceOver(row) == \A r \in From : hist[r].race = row /\ pc[r] = "idle"
WonSlot(r, row) ==
    /\ StageOf(userStates[r]) = "collecting_form"
    /\ forms[r] # <<>>
    /\ forms[r][1].slots[1].row = row
LostSlot(r) ==
    /\ StageOf(userStates[r]) = "awaiting_time_choice"
    /\ \E i \in 1..Len(out[r]) : out[r][i].kind = "list_slots"

\* C2 - Race scenario: when two recipients, both in awaiting_time_choice with
\* the same open slot offered, pick it concurrently, exactly one moves to
\* collecting_form with a form for that slot and the other remains in
\* awaiting_time_choice and is shown a freshly queried slot list.
RaceScenario ==
    \A row \in RaceRows :
        RaceOver(row) =>
            \E w \in From : WonSlot(w, row) /\ \A l \in From \ {w} : LostSlot(l)

\* C3 - Stale-offer rejection: reserveSlotRow is never called for a row that is
\* not among the recipient's lastOfferedSlots.
StaleOfferRejected ==
    \A r \in From :
        pc[r] = "reserve_read" => FindOffered(userStates[r][1], loc[r].row) # <<>>

\* C4 - appointmentDate and appointmentTime are set only if a claim made for
\* the recipient in the current conversation has returned true.
AppointmentOnlyAfterClaim ==
    \A r \in From :
        (/\ userStates[r] # <<>>
         /\ \/ userStates[r][1].appointmentDate # 0
            \/ userStates[r][1].appointmentTime # Undef)
        => hist[r].claimOk

\* a recipient holds an appointment date and time after its claim succeeded
AppointmentSetAfterClaim ==
    \E r \in From :
        /\ userStates[r] # <<>>
        /\ userStates[r][1].appointmentDate = DayA
        /\ userStates[r][1].appointmentTime = "09:00"
        /\ hist[r].claimOk
        /\ sheet[2].status = K_reservado

\* C5 - While a form exists, idx increases only in a step in which the value
\* stored for the field at the old index passes that field's validate on its
\* normalized form.
IdxAdvancesOnlyValidated ==
    [][\A r \in From :
         (forms[r] # <<>> /\ forms'[r] # <<>> /\ forms'[r][1].idx > forms[r][1].idx)
         => /\ forms[r][1].idx < Len(FORM_APPT)
            /\ LET key == FORM_APPT[forms[r][1].idx + 1]
                   v == forms'[r][1].data[key]
               IN  v # UndefText /\ ValidateOf(key, NormalizeOf(key, v)) = "ok"]_vars

NormalizeBeforeValidate ==
    \A r \in From :
        hist[r].phone8 # <<>> =>
            /\ forms[r] # <<>>
            /\ forms[r][1].idx = 2
            /\ forms[r][1].data.telefono = hist[r].phone8

\* C8 - Cancellation: a text holding the cancel phrase is handled before any
\* stage, button or form dispatch and leaves the recipient in stage initial
\* with no form and no retained selection, from every stage and when repeated.
CancellationResets ==
    \A r \in From :
        hist[r].cancelled =>
            /\ userStates[r] = <<NewUserState("initial", now)>>
            /\ forms[r] = <<>>
            /\ out[r] = <<Msg("cancelado")>>
            /\ pc[r] = "idle"

\* the cancel phrase has just discarded a form
CancelledWithForm ==
    \E r \in From : hist[r].cancelled /\ hist[r].hadForm /\ forms[r] = <<>>

\* C9 - Day list: the list returned by getNextWorkingDays(7) holds no Sunday
\* and no configured holiday: no fixed-date holiday and no moveable feast
\* (Carnival Monday and Tuesday, Good Friday, Corpus Christi) counted from the
\* Easter date.
DayListHasNoRestDay ==
    dpc = "done" =>
        \A i \in 1..Len(days) :
            LET d == days[i]
                y == YearOf(d)
                easter == easterYMD(y)
                easterDay == DaysFromCivil(YearOf(easter), MonthOf(easter), DayOf(easter))
                feasts == {CivilFromDays(easterDay + n) : n \in {-48, -47, -2, 60}}
                fixed == {y * 10000 + md : md \in {101, 501, 621, 806, 1102, 1225, 924}}
            IN  /\ (DaysFromCivil(y, MonthOf(d), DayOf(d)) + 4) % 7 # 0
                /\ d \notin fixed
                /\ d \notin feasts

\* C10 - End-to-end scenario: a new recipient who sends "hola", selects
\* Asesoria Tributaria, picks the day whose open slots are 09:00 and 09:30,
\* picks 09:00 with a successful claim, and types the name, "si" as phone
\* confirmation, the email and "confirmar", passes through the stages in
\* order, is shown the summary, and ends with exactly one booking appended
\* for that slot and stage initial.
EndToEndScenario ==
    \A r \in From :
        LET k == hist[r].e2e
            st == StageOf(userStates[r])
            shown(kind) == \E i \in 1..Len(out[r]) : out[r][i].kind = kind
        IN  /\ k = 1 => st = "awaiting_service_type" /\ shown("main_menu")
            /\ k = 2 => st = "awaiting_day_choice"
            /\ k = 3 => st = "awaiting_time_choice"
            /\ k \in 4..7 => st = "collecting_form" /\ forms[r] # <<>>
            /\ k \in 4..7 => forms[r][1].idx = k - 4
            /\ k = 7 => shown("summary")
            /\ k = 8 => /\ st = "initial"
                        /\ Len(appts) = 1
                        /\ appts[1].slotRow = 2

\* the status cell is present and is not the open sentinel
StatusTaken(status) == status # <<>> /\ UpperStatus(status) # K_disponible

\* C11 - A claim on a row whose current status is present and is not the open
\* sentinel returns false and performs no write: the row, like the rest of the
\* sheet, stays as it was, and the recipient gets no form.
ClaimOnTakenRowRefused ==
    [][\A r \in From :
         (/\ pc[r] = "reserve_read"
          /\ pc'[r] # "reserve_read"
          /\ loc[r].row \in DOMAIN sheet
          /\ StatusTaken(sheet[loc[r].row].status))
         => /\ pc'[r] = "idle"
            /\ sheet' = sheet
            /\ hist'[r].won = hist[r].won
            /\ forms'[r] = forms[r]]_vars

\* a claim on row 2, reserved by the other recipient, has just returned false
ClaimRefusedOnReservedRow ==
    \E r \in From :
        /\ hist[r].refused = 2
        /\ pc[r] = "idle"
        /\ sheet[2].status = K_reservado
        /\ sheet[2].claimant # AddressTable[r].digits
        /\ 2 \notin hist[r].won

\* the minutes after midnight of an hour cell
HourMinutes(tm) ==
    CASE tm = "09:00" -> 540 [] tm = "09:30" -> 570 [] tm = "10:00" -> 600 [] OTHER -> 0

AppendFailureKeepsState ==
    [][\A r \in From :
         hist'[r].appendFailed =>
            /\ forms'[r] = forms[r]
            /\ StageOf(userStates'[r]) = StageOf(userStates[r])
            /\ out'[r] = <<Msg("append_failed")>>
            /\ appts' = appts]_vars

\* a confirmation has just failed to append: the form and the claimed row remain
AppendFailedInForm ==
    \E r \in From :
        /\ hist[r].appendFailed
        /\ forms[r] # <<>>
        /\ forms[r][1].idx = Len(FORM_APPT)
        /\ StageOf(userStates[r]) = "collecting_form"
        /\ appts = <<>>
        /\ sheet[2].status = K_reservado

\* C14 - Claims on different rows are independent: two claim attempts running
\* together on two different open rows both return true, whatever the order
\* of their reads and writes, and each row then holds RESERVADO with its own
\* claimant.
IndependentClaims ==
    \A r \in From :
        (hist[r].apart # 0 /\ pc[r] = "idle") =>
            /\ hist[r].apart \in hist[r].won
            /\ hist[r].refused = 0
            /\ sheet[hist[r].apart].status = K_reservado
            /\ sheet[hist[r].apart].claimant = AddressTable[r].digits

\* both recipients have claimed, together, one row 2 and the other row 3
BothClaimedApart ==
    /\ hist["u1"].apart = 2
    /\ hist["u2"].apart = 3
    /\ pc["u1"] = "idle"
    /\ pc["u2"] = "idle"
    /\ sheet[2].claimant = AddressTable["u1"].digits
    /\ sheet[3].claimant = AddressTable["u2"].digits

\* C15 - A form exists for a recipient only while the recipient's stage is
\* collecting_form.
FormOnlyWhileCollecting ==
    \A r \in From : forms[r] # <<>> => StageOf(userStates[r]) = "collecting_form"

\* the UserState before a help text, { state: 'initial' } if there was none
StateBefore(r) == IF userStates[r] = <<>> THEN NewUserState("initial", 0) ELSE userStates[r][1]

\* C16 (as stated) - A text holding the help phrase returns the hint of the
\* current stage and leaves the recipient's UserState and form exactly as they
\* were.
HelpMutatesNothing ==
    [][\A r \in From :
         (hist'[r].helped /\ userStates[r] # <<>>) =>
            /\ userStates'[r] = userStates[r]
            /\ forms'[r] = forms[r]
            /\ out'[r] = <<Msg(getHelpMessage(StateBefore(r).state))>>]_vars

\* C16 (amended) - A text holding the help phrase and not the cancel phrase
\* returns the hint of the current stage and leaves the stage, the selections
\* and the form as they were; only updatedAt is refreshed.
HelpKeepsSelections ==
    [][\A r \in From :
         hist'[r].helped =>
            /\ userStates'[r] # <<>>
            /\ [userStates'[r][1] EXCEPT !.updatedAt = 0] = [StateBefore(r) EXCEPT !.updatedAt = 0]
            /\ forms'[r] = forms[r]
            /\ out'[r] = <<Msg(getHelpMessage(StateBefore(r).state))>>]_vars

\* help has just been asked for while the form is open, an hour after the claim
HelpedInForm ==
    \E r \in From :
        /\ hist[r].helped
        /\ forms[r] # <<>>
        /\ StageOf(userStates[r]) = "collecting_form"
        /\ userStates[r][1].updatedAt > sheet[2].ts
        /\ sheet[2].status = K_reservado
        /\ out[r] = <<Msg("help_default")>>

\* C17 - Receipt failure is non-fatal: when the receipt cannot be generated or
\* delivered after the booking row was appended, the row stays appended, the
\* conversation ends in stage initial without a form, and the recipient is told
\* how to ask for the receipt again.
ReceiptFailureReported ==
    \A r \in From :
        hist[r].receipt \in {"undeliverable", "pdf_error"} =>
            /\ appts # <<>>
            /\ StageOf(userStates[r]) = "initial"
            /\ forms[r] = <<>>
            /\ \E i \in 1..Len(out[r]) : out[r][i].kind = "pdf_not_attached"

\* C18 - A slot selection leads to a call of reserveSlotRow only when the
\* recipient's stage is awaiting_time_choice.
ClaimOnlyInTimeChoice ==
    \A r \in From : pc[r] # "idle" => StageOf(userStates[r]) = "awaiting_time_choice"

\* C19 - Write-once booking: a claimed slot row has at most one booking row in
\* the ledger.
WriteOnceBooking ==
    \A row \in DOMAIN sheet :
        Cardinality({i \in 1..Len(appts) : appts[i].slotRow = row}) <= 1

\* C20 - Cancelling never leaves a row that the recipient claimed in claimed
\* status with no booking row.
ClaimedRowsAccounted ==
    \A r \in From :
        hist[r].cancelled =>
            \A row \in hist[r].won :
                \/ \E i \in 1..Len(appts) : appts[i].slotRow = row
                \/ ~StatusTaken(sheet[row].status)

\* C21 - When reserveSlotRow returns false for a recipient in stage
\* awaiting_time_choice, the recipient stays in awaiting_time_choice,
\* lastOfferedSlots becomes the list queried anew for the chosen day, also when
\* that list is empty, slotsPage becomes 0, the appointment's date and hour stay
\* as they were and no form is created.
RefusalRefreshesOffer ==
    [][\A r \in From :
         (/\ pc[r] = "reserve_read"
          /\ pc'[r] = "idle"
          /\ StageOf(userStates[r]) = "awaiting_time_choice")
         => LET st == userStates[r][1]
                st1 == userStates'[r][1]
            IN  /\ st1.state = "awaiting_time_choice"
                /\ st1.lastOfferedSlots = getSlotsForDate(sheet, st.chosenDay)
                /\ st1.slotsPage = 0
                /\ st1.appointmentDate = st.appointmentDate
                /\ st1.appointmentTime = st.appointmentTime
                /\ forms'[r] = forms[r]]_vars

\* C22 - When a recipient in stage awaiting_day_choice picks a listed day that
\* has no open slot, the recipient is told, the day list is sent again and the
\* stage remains awaiting_day_choice.
NoSlotsKeepsDayChoice ==
    [][\A r \in From : \A d \in {DayA, DayB} :
         (/\ StageOf(userStates[r]) = "awaiting_day_choice"
          /\ InSeq(d, NextSevenDays(now))
          /\ getSlotsForDate(sheet, d) = <<>>
          /\ ButtonEvent(r, DayButton(d)))
         => /\ StageOf(userStates'[r]) = "awaiting_day_choice"
            /\ Len(out'[r]) = 2
            /\ out'[r][1].kind = "no_slots_for_day"
            /\ out'[r][2].kind = "list_days"]_vars

\* C23 - Whenever chosenDay and lastOfferedSlots are both set, every slot of
\* lastOfferedSlots is a slot of chosenDay.
OfferedSlotsOfChosenDay ==
    \A r \in From :
        (userStates[r] # <<>> /\ userStates[r][1].chosenDay # 0) =>
            \A i \in 1..Len(userStates[r][1].lastOfferedSlots) :
                userStates[r][1].lastOfferedSlots[i].date = userStates[r][1].chosenDay

\* C24 - Every booking row that is appended carries the date and the hour of
\* the sheet row named by its slotRow, and at the append that row holds
\* RESERVADO with the digits of the recipient who confirms.
BookingMatchesRow ==
    [][appts' # appts =>
         LET rec == appts'[Len(appts')]
             row == sheet[rec.slotRow]
         IN  /\ rec.fecha = row.date
             /\ rec.hora = row.time
             /\ row.status = K_reservado
             /\ \E r \in From :
                   /\ forms[r] # <<>>
                   /\ forms'[r] = <<>>
                   /\ row.claimant = AddressTable[r].digits]_vars

\* every field of the form holds a value that its validate accepts, and idx is
\* past the last field
FormComplete(f) ==
    /\ f.idx >= Len(FORM_APPT)
    /\ \A i \in 1..Len(FORM_APPT) :
          /\ f.data[FORM_APPT[i]] # UndefText
          /\ ValidateOf(FORM_APPT[i], f.data[FORM_APPT[i]]) = "ok"

\* C25 - confirm_yes appends a booking row only if the recipient's form has
\* collected every field of the schema; received while a field is pending it
\* appends nothing.
ConfirmOnlyCompleteForm ==
    [][appts' # appts =>
         \E r \in From :
            /\ forms[r] # <<>>
            /\ appts'[Len(appts')].slotRow = forms[r][1].slots[1].row
            /\ FormComplete(forms[r][1])]_vars

\* C27 - Once the summary has been shown, the text "no" discards the form and
\* returns the conversation to stage initial.
DeclineDiscardsForm ==
    [][\A r \in From :
         (/\ forms[r] # <<>>
          /\ \E i \in 1..Len(out[r]) : out[r][i].kind = "summary"
          /\ TextEvent(r, T_no))
         => /\ forms'[r] = <<>>
            /\ StageOf(userStates'[r]) = "initial"]_vars

\* C26 - schema[idx] is read only with 0 <= idx < schema length: no text reaches
\* handleFormInput while idx is past the last field (the summary was shown), and
\* tel_yes, which adds one to idx before askNext, does not arrive while the
\* last field is the current one.
FieldReadInRange ==
    [][\A r \in From :
         /\ (forms[r] # <<>> /\ forms[r][1].idx >= Len(FORM_APPT))
               => \A text \in FormTexts \ CancelTexts : ~TextEvent(r, text)
         /\ (forms[r] # <<>> /\ forms[r][1].idx + 1 >= Len(FORM_APPT))
               => ~ButtonEvent(r, Plain("tel_yes"))]_vars

\* C28 - When reserveSlotRow throws instead of returning false (the row it
\* asked for is open and yet the claim ends without a write), the stage, the
\* appointment's date and hour and the form stay as they were, and the
\* recipient is not told that the slot has been taken.
ClaimFailureNotSlotTaken ==
    [][\A r \in From :
         (/\ pc[r] = "reserve_read"
          /\ pc'[r] = "idle"
          /\ ReserveReadOpen(sheet, loc[r].row))
         => /\ StageOf(userStates'[r]) = StageOf(userStates[r])
            /\ userStates'[r][1].appointmentDate = userStates[r][1].appointmentDate
            /\ userStates'[r][1].appointmentTime = userStates[r][1].appointmentTime
            /\ forms'[r] = forms[r]
            /\ \A i \in 1..Len(out'[r]) : out'[r][i].kind # "slot_taken"]_vars

\* the day list as sendNext7Days sends it at instant t
DayListMsg(t) == [Msg("list_days") EXCEPT !.days = NextSevenDays(t)]

\* a sheet of Horarios without any slot
EmptySheet == [row \in Rows |-> BlankRow]

\* C29 - A day selection (day_<date>) whose date is not in the freshly computed
\* list of the next 7 working days leaves the chosen day, the stage and the
\* offered slots of the recipient as they were, changes no form, sheet row or
\* booking, asks for no slots (the answer is the one given over an empty
\* sheet) and sends the current day list and nothing else.
StaleDayPickChangesNothing ==
    [][\A r \in From : \A d \in {DayA, DayB, DayOff} :
         (/\ ~InSeq(d, NextSevenDays(now))
          /\ userStates'[r] # <<>>
          /\ ButtonEvent(r, DayButton(d)))
         => /\ userStates'[r][1].chosenDay = StateBefore(r).chosenDay
            /\ userStates'[r][1].state = StateBefore(r).state
            /\ userStates'[r][1].lastOfferedSlots = StateBefore(r).lastOfferedSlots
            /\ forms' = forms
            /\ sheet' = sheet
            /\ appts' = appts
            /\ out'[r] = <<DayListMsg(now)>>
            /\ generarRespuesta(Ctx(r), <<>>, DayButton(d), r, EmptySheet, now, TRUE, "sent")
                 = generarRespuesta(Ctx(r), <<>>, DayButton(d), r, sheet, now, TRUE, "sent")]_vars

\* slots of a day were offered and a later pick of a day that is not listed was
\* answered with the day list alone
StaleDayPicked ==
    \E r \in From :
       /\ StageOf(userStates[r]) = "awaiting_time_choice"
       /\ userStates[r][1].chosenDay = DayA
       /\ userStates[r][1].lastOfferedSlots # <<>>
       /\ out[r] = <<DayListMsg(now)>>

\* the page of the offered slots that a more_ reply with index n is answered with
PageMsg(slots, n) == [Msg("list_slots") EXCEPT !.rows = SlotPageRows(slots, n)]

\* the reply is answered as it would be over an empty sheet
AnsweredWithoutSheet(r, b) ==
    generarRespuesta(Ctx(r), <<>>, b, r, EmptySheet, now, TRUE, "sent")
      = generarRespuesta(Ctx(r), <<>>, b, r, sheet, now, TRUE, "sent")

\* C30 as stated - A pagination event (more_<n>) reads and writes no slot
\* row and does not change the offered slots: of the recipient's state only
\* slotsPage changes, and a page of the same offered slots is sent.
PagingOnlyTurnsPage ==
    [][\A r \in From : \A b \in MoreButtons :
         ButtonEvent(r, b)
         => /\ sheet' = sheet
            /\ AnsweredWithoutSheet(r, b)
            /\ userStates'[r] # <<>>
            /\ [userStates'[r][1] EXCEPT !.slotsPage = 0] = [StateBefore(r) EXCEPT !.slotsPage = 0]
            /\ out'[r] = <<PageMsg(StateBefore(r).lastOfferedSlots, b.n)>>]_vars

\* C30 - A pagination event (more_<n>) reads and writes no slot row and does
\* not change the offered slots, the forms or the bookings.  With a chosen day
\* and offered slots on record it changes only slotsPage, which becomes n, and
\* the activity timestamp, and sends a page of the same offered slots; with
\* none it changes only the timestamp and asks to choose a day first.
PagingKeepsOffer ==
    [][\A r \in From : \A b \in MoreButtons :
         ButtonEvent(r, b)
         => /\ sheet' = sheet
            /\ appts' = appts
            /\ forms' = forms
            /\ AnsweredWithoutSheet(r, b)
            /\ userStates'[r] # <<>>
            /\ [userStates'[r][1] EXCEPT !.slotsPage = 0, !.updatedAt = 0]
                 = [StateBefore(r) EXCEPT !.slotsPage = 0, !.updatedAt = 0]
            /\ userStates'[r][1].updatedAt = now
            /\ IF StateBefore(r).chosenDay # 0 /\ StateBefore(r).lastOfferedSlots # <<>>
               THEN /\ userStates'[r][1].slotsPage = b.n
                    /\ out'[r] = <<PageMsg(StateBefore(r).lastOfferedSlots, b.n)>>
               ELSE /\ userStates'[r][1].slotsPage = StateBefore(r).slotsPage
                    /\ out'[r] = <<Msg("primero_elige_dia")>>]_vars

\* the second page of a day's slots was sent, some time after the day was picked
SecondPageShown ==
    \E r \in From :
       /\ userStates[r] # <<>>
       /\ Len(userStates[r][1].lastOfferedSlots) > PageSize
       /\ userStates[r][1].slotsPage = 1
       /\ userStates[r][1].updatedAt > NowMain
       /\ out[r] = <<PageMsg(userStates[r][1].lastOfferedSlots, 1)>>

\* the questions of the form, and whether the last answer to r holds a message
FormPromptKinds ==
    {"ask_nombre", "ask_telefono", "ask_telefono_buttons", "ask_telefono_manual",
     "ask_email", "summary"}
Shown(r, kinds) == \E i \in 1..Len(out[r]) : out[r][i].kind \in kinds

\* C33 - Nothing is shown to a recipient as booked before the store has
\* answered: a question of the form is in the answer to a recipient only if
\* it has a form for a row for which reserveSlotRow returned true to it, and
\* the confirmation notice only if the event appended its booking row.
NothingShownBeforeStore ==
    \A r \in From :
       /\ Shown(r, FormPromptKinds)
             => /\ forms[r] # <<>>
                /\ forms[r][1].slots[1].row \in hist[r].won
       /\ Shown(r, {"cita_confirmada"})
             => /\ hist[r].receipt \in {"sent", "undeliverable", "pdf_error"}
                /\ ~hist[r].appendFailed
                /\ appts # <<>>

\* a recipient whose claim was granted and whose booking row was appended is
\* shown the confirmation
ShownAfterStoreAnswered ==
    \E r \in From :
       /\ Shown(r, {"cita_confirmada"})
       /\ Len(appts) = 1
       /\ hist[r].receipt = "sent"

\* the number of pages of a list of slots, and whether page p shows row id
PageCount(slots) == Len(buildSlotPages(slots, PageSize))
OnPage(slots, p, id) == InSeq(id, SlotPageRows(slots, p))

\* C35 - For the offered slots of any recipient, every rendered page has at
\* most 10 rows, every page but the last holds the control to the next page,
\* and every offered slot is on exactly one of the pages.
EverySlotOnOnePage ==
    \A r \in From :
       userStates[r] # <<>> =>
          \A p \in 0..(PageCount(userStates[r][1].lastOfferedSlots) - 1) :
             /\ Len(SlotPageRows(userStates[r][1].lastOfferedSlots, p)) <= MaxListRows
             /\ p < PageCount(userStates[r][1].lastOfferedSlots) - 1
                   => OnPage(userStates[r][1].lastOfferedSlots, p, RowId("more_", p + 1))
             /\ \A i \in 1..Len(userStates[r][1].lastOfferedSlots) :
                   (i - 1) \div PageSize = p
                   <=> OnPage(userStates[r][1].lastOfferedSlots, p,
                              RowId("slot_", userStates[r][1].lastOfferedSlots[i].row))

\* the row is among the slots that getSlotsForDate returns for the row's date
ListedOpen(sh, row) ==
    \E i \in 1..Len(getSlotsForDate(sh, sh[row].date)) :
       getSlotsForDate(sh, sh[row].date)[i].row = row

\* C36 - getSlotsForDate and reserveSlotRow agree on which status cells count
\* as open: whatever the status cell of a row that holds a slot, the row is
\* listed for its date if and only if a claim reading the row as it is goes
\* on to write it and returns true.
ListingAndClaimAgree ==
    \A row \in DOMAIN sheet :
       sheet[row].date # 0 => (ListedOpen(sheet, row) <=> ReserveReadOpen(sheet, row))

\* C37 - getNextWorkingDays(n), here with n = 7, returns exactly n dates in
\* strictly increasing order (hence distinct), the first of which is not
\* earlier than today's date in the configured time zone.
DayListStartsToday ==
    dpc = "done" =>
       /\ Len(days) = 7
       /\ \A i \in 1..(Len(days) - 1) : days[i] < days[i + 1]
       /\ days[1] >= ymdLocal(now)

\* the score of catalog entry i on the normalized text n: 3 for the label found
\* in it and 1 for every alias found in it
ScoreOf(n, i) ==
    (IF includes(n, normalize(SERVICE_CATALOG[i].label)) THEN 3 ELSE 0)
    + Cardinality({j \in 1..Len(SERVICE_CATALOG[i].aliases) :
                     includes(n, normalize(SERVICE_CATALOG[i].aliases[j]))})
TopScore(n) ==
    CHOOSE v \in 0..(3 + Len(SERVICE_CATALOG) * 6) :
       /\ \A i \in 1..Len(SERVICE_CATALOG) : ScoreOf(n, i) <= v
       /\ \E i \in 1..Len(SERVICE_CATALOG) : ScoreOf(n, i) = v

\* C38 - findServiceFromText returns the catalog entry with the highest score,
\* a label found in the text counting 3 and each alias found in it counting 1;
\* among the entries with the top score it returns the earliest in catalog
\* order, and it returns no entry when every score is 0.
BestServiceFound ==
    (query.at = "done" /\ "text" \in DOMAIN query) =>
       IF TopScore(normalize(query.text)) = 0 THEN query.result = 0
       ELSE /\ query.result \in 1..Len(SERVICE_CATALOG)
            /\ ScoreOf(normalize(query.text), query.result) = TopScore(normalize(query.text))
            /\ \A i \in 1..(query.result - 1) :
                  ScoreOf(normalize(query.text), i) < TopScore(normalize(query.text))

\* a text in which the label of the fourth entry (3) outscores two aliases of
\* the second (2), and the fourth entry is returned
LabelOutscoresAliases ==
    /\ query.at = "done"
    /\ "text" \in DOMAIN query
    /\ query.result = 4
    /\ ScoreOf(normalize(query.text), 2) = 2
    /\ ScoreOf(normalize(query.text), 4) = 3

\* the messages by which askNext asks for the field
PromptKinds(key) ==
    IF key = "telefono" THEN {"ask_telefono", "ask_telefono_buttons", "ask_telefono_manual"}
    ELSE {PromptOf(key)}

\* C39 - For every text that the current field's validate rejects, the same
\* field is asked for again: the answer holds the prompt of the field at the
\* unchanged idx.
RejectedFieldReprompted ==
    \A r \in From :
       (hist[r].rejected /\ forms[r] # <<>> /\ forms[r][1].idx < Len(FORM_APPT))
          => Shown(r, PromptKinds(FORM_APPT[forms[r][1].idx + 1]))

\* the recipient's UserState was last active more than 24 hours ago
Expired(r) == userStates[r] # <<>> /\ userStates[r][1].updatedAt < now - HoursPerDay

\* C34 - A sweep (cleanOldStates) removes every UserState whose last activity
\* is older than 24 hours together with its form, keeps every UserState active
\* within the last 24 hours together with its form, and leaves no form whose
\* UserState is gone.
SweepRemovesExpired ==
    [][cleanOldStates =>
         \A r \in From :
            /\ Expired(r) => userStates'[r] = <<>> /\ forms'[r] = <<>>
            /\ (userStates[r] # <<>> /\ ~Expired(r))
                  => userStates'[r] = userStates[r] /\ forms'[r] = forms[r]
            /\ forms'[r] # <<>> => userStates'[r] # <<>>]_vars

\* the state and the form of u1, who had claimed a slot, were swept, while the
\* state of u2, last active exactly 24 hours ago, is there
SweptOneKeptOther ==
    /\ userStates["u1"] = <<>>
    /\ forms["u1"] = <<>>
    /\ hist["u1"].won # {}
    /\ userStates["u2"] # <<>>
    /\ userStates["u2"][1].updatedAt = now - HoursPerDay

\* C40 - In the menu bot every stored state has lastMenu = home, so that after
\* any sequence of menu, submenu and text events a back event (whose answer is
\* delivered) renders the main menu and sets state to home.
BackLeadsHome ==
    \A r \in From :
       userStates[r] # <<>> =>
          /\ userStates[r][1].lastMenu = "home"
          /\ hist[r].back => /\ userStates[r][1].state = "home"
                             /\ out[r] = <<Msg("ace_main_menu")>>

\* the back button was received in a submenu state and answered with the main menu
BackFromSubmenu ==
    \E r \in From :
       /\ hist[r].back
       /\ userStates[r] # <<>>
       /\ userStates[r][1].state = "home"
       /\ userStates[r][1].updatedAt > NowMain

\* C32 - In the service with the final validation, after a granted claim a
\* valid name, a valid phone and a valid email typed in that order end with the
\* summary and its confirm/edit choice in the answer, and the form still holds
\* the date and the hour of the claimed row.
ValidFormEndsWithSummary ==
    \A r \in From :
       hist[r].filled = Len(FORM_APPT) + 1 =>
          /\ forms[r] # <<>>
          /\ \E i \in 1..Len(out[r]) : out[r][i].kind = "summary"
          /\ forms[r][1].slots[1].date = sheet[forms[r][1].slots[1].row].date
          /\ forms[r][1].slots[1].time = sheet[forms[r][1].slots[1].row].time

\* C31 - In the service with the final validation, a confirm choice whose
\* validation of the payload fails appends no booking row and leads back to the
\* first field the errors name: idx stands at a field whose prompt is in the
\* answer.
FailedFinalCheckRoutesBack ==
    \A r \in From :
       hist[r].final # <<>> /\ hist[r].final[1].errors # <<>> =>
          /\ ~hist[r].final[1].appended
          /\ forms[r] # <<>>
          /\ forms[r][1].idx < Len(FORM_APPT)
          /\ \E i \in 1..Len(out[r]) : out[r][i].kind = PromptOf(FORM_APPT[forms[r][1].idx + 1])
          /\ FirstNamedField(hist[r].final[1].errors) \in
                {"", FORM_APPT[forms[r][1].idx + 1]}

====
